---- MODULE Spec2Model ----
(***************************************************************************)
(* Model of the multi-error aggregation subsystem of rsb/failure:          *)
(* failure.Multi, its chain adapter, Append and the concurrent Group.      *)
(*                                                                         *)
(* Multi values live in a heap and are referred to by pointer, so that     *)
(* in-place mutation and aliasing behave as they do in Go.  The cause      *)
(* chain protocol of the standard library (errors.Is / As / Unwrap) is     *)
(* modelled by the operators ErrorsIs, ErrorsAs and ErrorsUnwrap.          *)
(***************************************************************************)
EXTENDS Integers, Sequences, FiniteSets, TLC

\* ------------------------------------------------------------------ bounds
MaxObjs == 2
MaxLen == 3
MaxCells == 3
MaxArgs == 2
MaxTasks == 2
MaxSortLen == 7
MaxFormat == 2
MaxWraps == 2
MaxGroupObjs == 2
MaxFields == 3

\* ------------------------------------------------------------ error values
\* The nil error interface value.
Nil == [k |-> "nil"]
\* errors.New(...): a pointer to an errorString; identity is the pointer.
Plain(i) == [k |-> "plain", id |-> i]
\* A value of a caller-defined concrete error type (the tests' *nestedError).
Nested(i) == [k |-> "nested", id |-> i]
\* fmt.Errorf("...: %w", x) as produced by failure.Wrap.
Wrapped(x) == [k |-> "wrap", in |-> x]
\* A *Multi; ref 0 is the typed nil pointer, any other ref indexes the heap.
MultiPtr(r) == [k |-> "multi", ref |-> r]
TypedNil == MultiPtr(0)
\* A chain over a private array (live = 0, contents in errs) or over the
\* first hi elements of the backing array of Multi number live, from lo on.
Chain(s) == [k |-> "chain", errs |-> s, live |-> 0, lo |-> 1, hi |-> Len(s)]
ChainOver(r, n) == [k |-> "chain", errs |-> <<>>, live |-> r, lo |-> 1, hi |-> n]

IsNilPtr(e) == e.k = "multi" /\ e.ref = 0
IsMultiVal(e) == e.k = "multi" /\ e.ref # 0

E1 == Plain(1)
E2 == Plain(2)
N1 == Nested(1)
N2 == Nested(2)

\* --------------------------------------------------------------- sequences
RECURSIVE Flat(_)
Flat(ss) == IF ss = <<>> THEN <<>> ELSE Head(ss) \o Flat(Tail(ss))

SeqsUpTo(S, n) == UNION {[1..m -> S] : m \in 0..n}

Min(a, b) == IF a < b THEN a ELSE b

\* ------------------------------------------------------------------- state
VARIABLES heap, pc, last, walk, grp, tasks, mainpc, catalog

vars == <<heap, pc, last, walk, grp, tasks, mainpc, catalog>>

Refs(h) == 1..Len(h)

\* new(Multi) / &Multi{}: no failures, no formatter.
NewMulti == [Failures |-> <<>>, Formatter |-> "nil"]

Failures(h, e) == h[e.ref].Failures

\* --------------------------------------------------------- display strings
\* Strings are sequences of byte values, so that Go's bytewise < applies.
StrFoo == <<102, 111, 111>>
StrBar == <<98, 97, 114>>
StrBaz == <<98, 97, 122>>
StrW == <<119>>
StrWrapSep == <<58, 32>>
StrOneHeader == <<49, 32, 101, 114, 114, 111, 114, 32, 111, 99, 99, 117, 114, 114, 101, 100, 58, 10, 9, 42, 32>>
StrManyHeader == <<32, 101, 114, 114, 111, 114, 115, 32, 111, 99, 99, 117, 114, 114, 101, 100, 58, 10, 9>>
StrBullet == <<42, 32>>
StrJoin == <<10, 9>>
StrTail == <<10, 10>>
StrFmtNil == <<37, 33, 115, 40, 60, 110, 105, 108, 62, 41>>
StrPtrNil == <<60, 110, 105, 108, 62>>
\* The outcome of calling a method through a nil interface or nil pointer.
Panic == <<-1>>

StrPercent == <<53, 48, 37>>
StrVerb == <<37, 100>>

\* The text given to errors.New: "foo", "bar", "50%", "%d", otherwise "baz".
PlainMsg(i) ==
  IF i = 1 THEN StrFoo
  ELSE IF i = 2 THEN StrBar
  ELSE IF i = 5 THEN StrPercent
  ELSE IF i = 6 THEN StrVerb
  ELSE StrBaz

RECURSIVE Itoa(_)
Itoa(n) == IF n < 10 THEN <<48 + n>> ELSE Itoa(n \div 10) \o <<48 + (n % 10)>>

RECURSIVE StrLess(_, _)
StrLess(a, b) ==
  IF b = <<>> THEN FALSE
  ELSE IF a = <<>> THEN TRUE
  ELSE IF Head(a) # Head(b) THEN Head(a) < Head(b)
  ELSE StrLess(Tail(a), Tail(b))

RECURSIVE Join(_, _)
Join(ss, sep) ==
  IF ss = <<>> THEN <<>>
  ELSE IF Len(ss) = 1 THEN ss[1]
  ELSE ss[1] \o sep \o Join(Tail(ss), sep)

\* The elements a chain value currently denotes.
ChainErrs(h, c) ==
  IF c.live = 0 THEN c.errs
  ELSE SubSeq(h[c.live].Failures, c.lo, Min(c.hi, Len(h[c.live].Failures)))

RECURSIVE ErrorString(_, _), FmtS(_, _), ListFormatFn(_, _), MultiError(_, _)

\* Variant of the %s verb that calls Error() on whatever it is given.
FmtS_NoNilTest(h, e) ==
  IF IsNilPtr(e) THEN StrPtrNil ELSE ErrorString(h, e)

\* fmt's %s verb applied to an error: Error() is called, a panic raised by a
\* nil pointer receiver is caught and printed as <nil>.
FmtS(h, e) ==
  IF e.k = "nil" THEN StrFmtNil
  ELSE IF IsNilPtr(e) THEN StrPtrNil
  ELSE ErrorString(h, e)

\* Variant of ListFormatFn without the form for exactly one failure.
ListFormatFn_NoSingular(h, es) ==
  Itoa(Len(es)) \o StrManyHeader
  \o Join([i \in 1..Len(es) |-> StrBullet \o FmtS(h, es[i])], StrJoin)
  \o StrTail

ListFormatFn(h, es) ==
  IF Len(es) = 1 THEN StrOneHeader \o FmtS(h, es[1]) \o StrTail
  ELSE Itoa(Len(es)) \o StrManyHeader
       \o Join([i \in 1..Len(es) |-> StrBullet \o FmtS(h, es[i])], StrJoin)
       \o StrTail

MultiError(h, e) ==
  IF e.ref = 0 THEN Panic
  ELSE IF h[e.ref].Formatter = "custom" THEN StrFoo
  ELSE ListFormatFn(h, h[e.ref].Failures)

\* x.Error() for every kind of error value.
ErrorString(h, e) ==
  CASE e.k = "nil" -> Panic
    [] e.k = "plain" -> PlainMsg(e.id)
    [] e.k = "nested" -> <<>>
    [] e.k = "wrap" ->
         LET in == ErrorString(h, e.in)
         IN IF in = Panic THEN Panic ELSE StrW \o StrWrapSep \o in
    [] e.k = "multi" -> MultiError(h, e)
    [] e.k = "chain" -> ErrorString(h, ChainErrs(h, e)[1])
    [] e.k = "err" -> e.msg
    [] e.k = "wrapf" -> e.msg
    [] e.k = "text" -> e.msg
    [] e.k = "rest" -> ErrorString(h, e.Err)
    [] e.k = "restnil" -> Panic

\* -------------------------------------------------- the cause-chain protocol
\* Variant of Multi.Unwrap without the case of exactly one failure.
MultiUnwrap_NoSingle(h, e) ==
  IF e.ref = 0 \/ Len(h[e.ref].Failures) = 0 THEN Nil
  ELSE Chain(h[e.ref].Failures)

\* Variant of Multi.Unwrap that hands out the Failures slice itself.
MultiUnwrap_NoCopy(h, e) ==
  IF e.ref = 0 \/ Len(h[e.ref].Failures) = 0 THEN Nil
  ELSE IF Len(h[e.ref].Failures) = 1 THEN h[e.ref].Failures[1]
  ELSE ChainOver(e.ref, Len(h[e.ref].Failures))

\* Multi.Unwrap
MultiUnwrap(h, e) ==
  IF e.ref = 0 \/ Len(h[e.ref].Failures) = 0 THEN Nil
  ELSE IF Len(h[e.ref].Failures) = 1 THEN h[e.ref].Failures[1]
  ELSE Chain(h[e.ref].Failures)

\* Variant of chain.Unwrap that stops one element early.
ChainUnwrap_StopEarly(h, c) ==
  IF Len(ChainErrs(h, c)) <= 2 THEN Nil
  ELSE IF c.live = 0 THEN [c EXCEPT !.errs = Tail(c.errs), !.hi = c.hi - 1]
  ELSE [c EXCEPT !.lo = c.lo + 1]

\* chain.Unwrap
ChainUnwrap(h, c) ==
  IF Len(ChainErrs(h, c)) = 1 THEN Nil
  ELSE IF c.live = 0 THEN [c EXCEPT !.errs = Tail(c.errs), !.hi = c.hi - 1]
  ELSE [c EXCEPT !.lo = c.lo + 1]

\* errors.Unwrap: the result of the value's Unwrap method, nil without one.
ErrorsUnwrap(h, e) ==
  CASE e.k = "wrap" -> e.in
    [] e.k = "wrapf" -> e.in
    [] e.k = "multi" -> MultiUnwrap(h, e)
    [] e.k = "chain" -> ChainUnwrap(h, e)
    [] OTHER -> Nil

\* The dynamic type of a value, as errors.As compares it with the target's.
TypeOf(e) ==
  CASE e.k = "plain" -> "*errors.errorString"
    [] e.k = "nested" -> "*nestedError"
    [] e.k = "wrap" -> "*fmt.wrapError"
    [] e.k = "multi" -> "*failure.Multi"
    [] e.k = "chain" -> "failure.chain"
    [] e.k = "err" -> "failure.err"
    [] e.k = "wrapf" -> "*fmt.wrapError"
    [] e.k = "text" -> "*errors.errorString"
    [] e.k \in {"rest", "restnil"} -> "*failure.RestAPI"
    [] OTHER -> "nil"

\* A chain is a slice: Go may not compare it with ==.
Comparable(e) == e.k # "chain"

RECURSIVE ErrorsIs(_, _, _), ChainIs(_, _, _), IsLoop(_, _, _)

\* Variant of chain.Is that compares the current value with ==.
ChainIs_Direct(h, c, target) == ChainErrs(h, c)[1] = target

\* chain.Is
ChainIs(h, c, target) == ErrorsIs(h, ChainErrs(h, c)[1], target)

IsLoop(h, err, target) ==
  IF Comparable(target) /\ err = target THEN TRUE
  ELSE IF err.k = "chain" /\ ChainIs(h, err, target) THEN TRUE
  ELSE LET next == ErrorsUnwrap(h, err)
       IN IF next = Nil THEN FALSE ELSE IsLoop(h, next, target)

\* errors.Is
ErrorsIs(h, err, target) ==
  IF target = Nil THEN err = target ELSE IsLoop(h, err, target)

NotFound == [ok |-> FALSE, val |-> Nil]
Found(v) == [ok |-> TRUE, val |-> v]

RECURSIVE ErrorsAs(_, _, _), ChainAs(_, _, _)

\* Variant of chain.As that tests the type of the current value only.
ChainAs_HeadOnly(h, c, T) ==
  IF TypeOf(ChainErrs(h, c)[1]) = T THEN Found(ChainErrs(h, c)[1]) ELSE NotFound

\* chain.As
ChainAs(h, c, T) == ErrorsAs(h, ChainErrs(h, c)[1], T)

\* errors.As with a target of type *T: the value stored in the target.
ErrorsAs(h, err, T) ==
  IF err = Nil THEN NotFound
  ELSE IF TypeOf(err) = T THEN Found(err)
  ELSE IF err.k = "chain" /\ ChainAs(h, err, T).ok THEN ChainAs(h, err, T)
  ELSE ErrorsAs(h, ErrorsUnwrap(h, err), T)

\* ------------------------------------------------------------------ Append
\* The body of the loop "for _, e := range errs" in Append, applied to the
\* Multi at heap index r.
RECURSIVE AppendLoop(_, _, _)

\* Variant of the loop that appends an aggregate as one element.
RECURSIVE AppendLoop_NoSplice(_, _, _)
AppendLoop_NoSplice(h, r, errs) ==
  IF errs = <<>> THEN h
  ELSE LET e == Head(errs)
           h1 == IF e # Nil /\ ~IsNilPtr(e)
                 THEN [h EXCEPT ![r].Failures = @ \o <<e>>]
                 ELSE h
       IN AppendLoop_NoSplice(h1, r, Tail(errs))

AppendLoop(h, r, errs) ==
  IF errs = <<>> THEN h
  ELSE LET e == Head(errs)
           h1 == IF e.k = "multi"
                 THEN IF e.ref # 0
                      THEN [h EXCEPT ![r].Failures = @ \o h[e.ref].Failures]
                      ELSE h
                 ELSE IF e # Nil
                      THEN [h EXCEPT ![r].Failures = @ \o <<e>>]
                      ELSE h
       IN AppendLoop(h1, r, Tail(errs))

\* Append(err, errs...): the heap after the call and the pointer returned.
RECURSIVE AppendErrs(_, _, _)

\* Variant of Append that always returns a new aggregate, holding the
\* failures of the first argument and of the others.
AppendErrs_Copy(h, err, errs) ==
  [h |-> AppendLoop(h \o <<NewMulti>>, Len(h) + 1, <<err>> \o errs),
   res |-> MultiPtr(Len(h) + 1)]

\* Variant of Append that leaves a plain first argument out of the result.
AppendErrs_DropFirst(h, err, errs) ==
  IF err.k = "multi"
  THEN IF err.ref = 0
       THEN [h |-> AppendLoop(h \o <<NewMulti>>, Len(h) + 1, errs),
             res |-> MultiPtr(Len(h) + 1)]
       ELSE [h |-> AppendLoop(h, err.ref, errs), res |-> err]
  ELSE [h |-> AppendLoop(h \o <<NewMulti>>, Len(h) + 1, errs),
        res |-> MultiPtr(Len(h) + 1)]

AppendErrs(h, err, errs) ==
  IF err.k = "multi"
  THEN IF err.ref = 0
       THEN [h |-> AppendLoop(h \o <<NewMulti>>, Len(h) + 1, errs),
             res |-> MultiPtr(Len(h) + 1)]
       ELSE [h |-> AppendLoop(h, err.ref, errs), res |-> err]
  ELSE LET newErrs == (IF err # Nil THEN <<err>> ELSE <<>>) \o errs
       IN AppendErrs(h \o <<NewMulti>>, MultiPtr(Len(h) + 1), newErrs)

\* Multiple(errs, opt...) and the struct literal &Multi{Failures: errs}.
Multiple(h, errs, fn) ==
  [h |-> h \o <<[Failures |-> errs, Formatter |-> fn]>>,
   res |-> MultiPtr(Len(h) + 1)]

\* Variant of ErrorOrNil without the test for an empty list.
ErrorOrNil_NoLenTest(h, e) == IF e.ref = 0 THEN Nil ELSE e

\* Multi.ErrorOrNil
ErrorOrNil(h, e) ==
  IF e.ref = 0 THEN Nil
  ELSE IF Len(h[e.ref].Failures) = 0 THEN Nil
  ELSE e

\* Variant of WrappedErrors without the test for a nil receiver.
WrappedErrors_NoNilTest(h, e) == IF e.ref = 0 THEN Panic ELSE h[e.ref].Failures

\* Multi.WrappedErrors: nil for a nil receiver, else the Failures slice.
WrappedErrors(h, e) == IF e.ref = 0 THEN <<>> ELSE h[e.ref].Failures

\* ------------------------------------------------ well-formedness of a heap
RECURSIVE Cells(_)
Cells(h) == IF h = <<>> THEN 0 ELSE Len(Head(h).Failures) + Cells(Tail(h))

\* Multi number to is reachable from the failures of Multi number from.
RECURSIVE Reach(_, _, _, _)
Reach(h, from, to, n) ==
  /\ n > 0
  /\ \E i \in 1..Len(h[from].Failures) :
       LET e == h[from].Failures[i]
       IN /\ IsMultiVal(e)
          /\ (e.ref = to \/ Reach(h, e.ref, to, n - 1))

\* No aggregate contains itself, directly or indirectly.
Acyclic(h) == \A r \in Refs(h) : ~Reach(h, r, r, Len(h))

WithinBounds(h) ==
  /\ Len(h) <= MaxObjs
  /\ \A r \in Refs(h) : Len(h[r].Failures) <= MaxLen
  /\ Cells(h) <= MaxCells
  /\ Acyclic(h)

\* -------------------------------------------------------------------- Sort
\* Multi.Len
MultiLen(h, e) == Len(h[e.ref].Failures)

\* Multi.Swap, on the backing array s of the Failures slice.
MultiSwap(s, i, j) == [s EXCEPT ![i] = s[j], ![j] = s[i]]

\* Multi.Less calls Error() on both elements; on a nil element that panics.
LessPanics(h, s, i, j) ==
  ErrorString(h, s[i]) = Panic \/ ErrorString(h, s[j]) = Panic

\* Variant of Multi.Less with the comparison turned round.
MultiLess_Reversed(h, s, i, j) ==
  StrLess(ErrorString(h, s[j]), ErrorString(h, s[i]))

\* Variant of Multi.Less that compares with <=.
MultiLess_OrEqual(h, s, i, j) ==
  ~StrLess(ErrorString(h, s[j]), ErrorString(h, s[i]))

MultiLess(h, s, i, j) == StrLess(ErrorString(h, s[i]), ErrorString(h, s[j]))

\* sort.Sort on fewer than seven elements is insertionSort(data, 0, n):
\*   for i := a + 1; i < b; i++ {
\*     for j := i; j > a && data.Less(j, j-1); j-- { data.Swap(j, j-1) } }
\* Indices are shifted by one, sequences being 1-based.
RECURSIVE InsertionInner(_, _, _)
InsertionInner(h, s, j) ==
  IF j <= 1 THEN [s |-> s, panic |-> FALSE]
  ELSE IF LessPanics(h, s, j, j - 1) THEN [s |-> s, panic |-> TRUE]
  ELSE IF MultiLess(h, s, j, j - 1)
       THEN InsertionInner(h, MultiSwap(s, j, j - 1), j - 1)
       ELSE [s |-> s, panic |-> FALSE]

RECURSIVE InsertionSort(_, _, _)
InsertionSort(h, s, i) ==
  IF i > Len(s) THEN [s |-> s, panic |-> FALSE]
  ELSE LET r == InsertionInner(h, s, i)
       IN IF r.panic THEN r ELSE InsertionSort(h, r.s, i + 1)

\* sort.Sort(e) for a non-nil *Multi e: the swaps are made in place.
SortMulti(h, e) ==
  LET r == InsertionSort(h, h[e.ref].Failures, 2)
  IN [h |-> [h EXCEPT ![e.ref].Failures = r.s], panic |-> r.panic]

\* ------------------------------------------------------ the client's inputs
Ptrs(h) == {MultiPtr(r) : r \in Refs(h)}
\* Receivers of the methods of *Multi.
Receivers(h) == {TypedNil} \cup Ptrs(h)
\* Arguments handed to Append.
AppendVals(h) == {Nil, TypedNil, E1, E2} \cup Ptrs(h)

NoWalk == [on |-> FALSE]
\* A walk in progress, after the aggregate it started from was written to.
Touched(w) == IF w.on THEN [w EXCEPT !.touched = TRUE] ELSE w
NoGroup ==
  [err |-> TypedNil, wg |-> 0, mutex |-> 0, ret |-> Nil, again |-> Nil,
   quiet |-> FALSE, snap |-> <<>>]

\* No catalog has been made.
NoCatalog == [on |-> FALSE]

\* ------------------------------------------------- building with Append
\* The client builds aggregates by Append calls and ends with one call whose
\* arguments and result it keeps in last.
Init ==
  /\ heap = <<>>
  /\ pc = "run"
  /\ last = [op |-> "Init"]
  /\ walk = NoWalk
  /\ grp = NoGroup
  /\ tasks = <<>>
  /\ mainpc = "idle"
  /\ catalog = NoCatalog

AppendCall(err, errs, final) ==
  LET c == AppendErrs(heap, err, errs)
  IN /\ pc = "run"
     /\ WithinBounds(c.h)
     /\ heap' = c.h
     /\ last' = IF final
                THEN [op |-> "Append", err |-> err, errs |-> errs, res |-> c.res]
                ELSE [op |-> "Init"]
     /\ pc' = IF final THEN "done" ELSE "run"
     /\ walk' = Touched(walk)
     /\ UNCHANGED <<grp, tasks, mainpc, catalog>>

ErrorOrNilCall(e) ==
  /\ pc = "run"
  /\ last' = [op |-> "ErrorOrNil", recv |-> e, res |-> ErrorOrNil(heap, e)]
  /\ pc' = "done"
  /\ UNCHANGED <<heap, walk, grp, tasks, mainpc, catalog>>

Next ==
  /\ pc = "run"
  /\ \/ \E err \in AppendVals(heap) :
          \E errs \in SeqsUpTo(AppendVals(heap), MaxArgs) :
            \E final \in BOOLEAN : AppendCall(err, errs, final)
     \/ \E e \in Receivers(heap) : ErrorOrNilCall(e)

Spec == Init /\ [][Next]_vars

\* ------------------------------------------------------- claims on Append
\* What `existing` contributes to the result of Append.
ExistingPart(h, err) ==
  IF IsMultiVal(err) THEN h[err.ref].Failures
  ELSE IF err = Nil \/ IsNilPtr(err) THEN <<>>
  ELSE <<err>>

\* What one additional item contributes, read off the heap h.
ItemPart(h, e) ==
  IF IsMultiVal(e) THEN h[e.ref].Failures
  ELSE IF e = Nil \/ IsNilPtr(e) THEN <<>>
  ELSE <<e>>

\* The claimed result, every aggregate being read as it was before the call.
ClaimedAppend(h, err, errs) ==
  ExistingPart(h, err) \o Flat([i \in 1..Len(errs) |-> ItemPart(h, errs[i])])

\* The same, except that an item which is the very aggregate passed as
\* `existing` contributes what has been accumulated in it so far.
RECURSIVE AccumulatedAppend(_, _, _, _)
AccumulatedAppend(h, err, acc, errs) ==
  IF errs = <<>> THEN acc
  ELSE LET e == Head(errs)
           part == IF IsMultiVal(e) /\ e = err THEN acc ELSE ItemPart(h, e)
       IN AccumulatedAppend(h, err, acc \o part, Tail(errs))

IsAppendStep == last'.op = "Append"

\* C1 (as stated): Append returns an Aggregate whose failure list is the
\* failures of `existing` (or [existing], or nothing), followed, for each
\* additional item in argument order, by that item's failures if it is a
\* non-nil Aggregate, by nothing if it is nil, and by the item otherwise.
C1_AsStated ==
  [][IsAppendStep =>
       /\ IsMultiVal(last'.res)
       /\ heap'[last'.res.ref].Failures
            = ClaimedAppend(heap, last'.err, last'.errs)]_vars

\* C1 (amended): as C1, except that an additional item which is the same
\* Aggregate object as `existing` contributes the failures accumulated in
\* it so far by this call, not only those it held before the call.
C1_Append ==
  [][IsAppendStep =>
       /\ IsMultiVal(last'.res)
       /\ heap'[last'.res.ref].Failures
            = AccumulatedAppend(heap, last'.err,
                                ExistingPart(heap, last'.err), last'.errs)]_vars

\* An Append whose first argument is a non-empty Aggregate and whose
\* additional items are that same Aggregate, after a plain error.
C1_Witness ==
  /\ last.op = "Append"
  /\ IsMultiVal(last.err)
  /\ Len(last.errs) = 2
  /\ last.errs[1].k = "plain"
  /\ last.errs[2] = last.err
  /\ Len(heap[last.res.ref].Failures) >= 2

\* C2: composing Append calls never nests: no element of the failure list
\* of an Aggregate obtained by Append calls from nil, plain errors and such
\* Aggregates is itself an Aggregate.
C2_AppendIsFlat ==
  \A p \in Receivers(heap) :
    \A i \in 1..Len(WrappedErrors(heap, p)) :
      WrappedErrors(heap, p)[i].k # "multi"

\* Append(Append(nil, e1), Append(nil, e2)) has just returned [e1, e2].
C2_Witness ==
  /\ last.op = "Append"
  /\ IsMultiVal(last.err)
  /\ Len(last.errs) = 1
  /\ IsMultiVal(last.errs[1])
  /\ last.errs[1] # last.err
  /\ WrappedErrors(heap, last.errs[1]) = <<E2>>
  /\ WrappedErrors(heap, last.res) = <<E1, E2>>

\* C10: ErrorOrNil returns nil exactly when the receiver is nil or has no
\* failures, and the receiver itself otherwise; Append(nil, nil) is a
\* non-nil Aggregate with no failures, for which ErrorOrNil is nil.
C10_ErrorOrNil ==
  /\ last.op = "ErrorOrNil" =>
       /\ (last.res = Nil) <=>
            (IsNilPtr(last.recv) \/ WrappedErrors(heap, last.recv) = <<>>)
       /\ last.res # Nil => last.res = last.recv
  /\ (last.op = "Append" /\ last.err = Nil /\ last.errs = <<Nil>>) =>
       /\ IsMultiVal(last.res)
       /\ WrappedErrors(heap, last.res) = <<>>
       /\ ErrorOrNil(heap, last.res) = Nil

\* ErrorOrNil has returned nil for a non-nil Aggregate without failures.
C10_Witness ==
  /\ last.op = "ErrorOrNil"
  /\ IsMultiVal(last.recv)
  /\ WrappedErrors(heap, last.recv) = <<>>
  /\ last.res = Nil

\* ------------------------------------------- queries on literal aggregates
\* Elements of a failure list written as a literal (Multiple, &Multi{...}).
ChainLeaves == {Nil, E1, N1, Wrapped(N2)}

Literal(errs) == [Failures |-> errs, Formatter |-> "nil"]

\* The heaps of at most n aggregates built one after the other from
\* literals, each of which may hold the aggregates built before it.
RECURSIVE LiteralHeaps(_)
LiteralHeaps(n) ==
  IF n = 0 THEN {<<>>}
  ELSE LET prev == LiteralHeaps(n - 1)
       IN prev \cup
          UNION {{h \o <<Literal(l)>> :
                    l \in {x \in SeqsUpTo(ChainLeaves \cup Ptrs(h), MaxLen) :
                             Len(x) + Cells(h) <= MaxCells}} :
                 h \in {q \in prev : Len(q) = n - 1}}

\* Targets of identity queries and target types of type queries.
IsTargets(h) == {E1, E2, N1, N2, Wrapped(N2)} \cup Receivers(h)
AsTypes == {"*nestedError", "*errors.errorString", "*failure.Multi"}

InitChain ==
  /\ heap \in LiteralHeaps(MaxObjs)
  /\ pc = "run"
  /\ last = [op |-> "Init"]
  /\ walk = NoWalk
  /\ grp = NoGroup
  /\ tasks = <<>>
  /\ mainpc = "idle"
  /\ catalog = NoCatalog

\* errors.Is(e, target)
IsCall(e, target) ==
  /\ last' = [op |-> "Is", agg |-> e, target |-> target,
              res |-> ErrorsIs(heap, e, target)]
  /\ pc' = "done"
  /\ UNCHANGED <<heap, walk, grp, tasks, mainpc, catalog>>

\* var t *T; errors.As(e, &t)
AsCall(e, T) ==
  /\ last' = [op |-> "As", agg |-> e, T |-> T, res |-> ErrorsAs(heap, e, T)]
  /\ pc' = "done"
  /\ UNCHANGED <<heap, walk, grp, tasks, mainpc, catalog>>

\* e.Unwrap()
UnwrapCall(e) ==
  /\ last' = [op |-> "Unwrap", recv |-> e, res |-> MultiUnwrap(heap, e)]
  /\ pc' = "done"
  /\ UNCHANGED <<heap, walk, grp, tasks, mainpc, catalog>>

\* e.Error()
ErrorCall(e) ==
  /\ last' = [op |-> "Error", recv |-> e, res |-> MultiError(heap, e)]
  /\ pc' = "done"
  /\ UNCHANGED <<heap, walk, grp, tasks, mainpc, catalog>>

\* e.WrappedErrors()
WrappedErrorsCall(e) ==
  /\ last' = [op |-> "WrappedErrors", recv |-> e, res |-> WrappedErrors(heap, e)]
  /\ pc' = "done"
  /\ UNCHANGED <<heap, walk, grp, tasks, mainpc, catalog>>

NextChain ==
  /\ pc = "run"
  /\ \/ \E e \in Ptrs(heap) : \E t \in IsTargets(heap) : IsCall(e, t)
     \/ \E e \in Ptrs(heap) : \E T \in AsTypes : AsCall(e, T)
     \/ \E e \in Receivers(heap) : UnwrapCall(e)
     \/ \E e \in Receivers(heap) : WrappedErrorsCall(e)
     \/ \E e \in Receivers(heap) : ErrorOrNilCall(e)
     \/ \E e \in Receivers(heap) : ErrorCall(e)

SpecChain == InitChain /\ [][NextChain]_vars

\* target equals e or is found within the cause chain of e.
RECURSIVE InCauseChain(_, _, _)
InCauseChain(h, e, target) ==
  \/ e = target
  \/ e.k = "wrap" /\ InCauseChain(h, e.in, target)
  \/ /\ IsMultiVal(e)
     /\ \E i \in 1..Len(h[e.ref].Failures) :
          InCauseChain(h, h[e.ref].Failures[i], target)

InSomeFailure(h, agg, target) ==
  \E i \in 1..Len(WrappedErrors(h, agg)) :
    InCauseChain(h, WrappedErrors(h, agg)[i], target)

\* C3 (as stated): errors.Is(aggregate, target) is true if and only if
\* target equals, or is found within the cause chain of, some failure of
\* the aggregate.
C3_AsStated ==
  last.op = "Is" => (last.res <=> InSomeFailure(heap, last.agg, last.target))

\* C3 (amended): errors.Is(aggregate, target) is true if and only if target
\* is the aggregate itself, or equals, or is found within the cause chain
\* of, some failure of the aggregate.
C3_Is ==
  last.op = "Is" =>
    (last.res <=> (last.target = last.agg
                     \/ InSomeFailure(heap, last.agg, last.target)))

\* The target is found wrapped inside the middle one of three failures.
C3_Witness ==
  /\ last.op = "Is"
  /\ last.res
  /\ last.target = N2
  /\ IsMultiVal(last.agg)
  /\ Len(heap[last.agg.ref].Failures) = 3
  /\ heap[last.agg.ref].Failures[2] = Wrapped(N2)
  /\ heap[last.agg.ref].Failures[1] = E1
  /\ heap[last.agg.ref].Failures[3] = N1

\* The first value of type T met when the failures are searched in order,
\* each through its own cause chain before the next.
RECURSIVE FirstOfType(_, _, _), FirstInList(_, _, _)
FirstOfType(h, e, T) ==
  IF e = Nil THEN NotFound
  ELSE IF TypeOf(e) = T THEN Found(e)
  ELSE IF e.k \in {"wrap", "wrapf"} THEN FirstOfType(h, e.in, T)
  ELSE IF IsMultiVal(e) THEN FirstInList(h, h[e.ref].Failures, T)
  ELSE NotFound

FirstInList(h, l, T) ==
  IF l = <<>> THEN NotFound
  ELSE IF FirstOfType(h, Head(l), T).ok THEN FirstOfType(h, Head(l), T)
  ELSE FirstInList(h, Tail(l), T)

\* C4 (as stated): errors.As(aggregate, &target) for a concrete type T
\* succeeds when some failure's cause chain holds a T, setting target to the
\* first such value in insertion order; otherwise it fails, target nil.
C4_AsStated ==
  last.op = "As" =>
    last.res = FirstInList(heap, WrappedErrors(heap, last.agg), last.T)

\* C4 (amended): as C4 for every type T other than the Aggregate type; for
\* T the Aggregate type itself errors.As always succeeds and sets target to
\* the aggregate it was called on.
C4_As ==
  last.op = "As" =>
    IF last.T = "*failure.Multi"
    THEN last.res = Found(last.agg)
    ELSE last.res = FirstInList(heap, WrappedErrors(heap, last.agg), last.T)

\* Two failures hold a value of the type, the first of them wrapped.
C4_Witness ==
  /\ last.op = "As"
  /\ last.T = "*nestedError"
  /\ IsMultiVal(last.agg)
  /\ heap[last.agg.ref].Failures = <<E1, Wrapped(N2), N1>>
  /\ last.res = Found(N2)

\* C7: Unwrap returns nil for no failures, the failure itself for exactly
\* one, and for two or more a chain whose head is the first failure and
\* whose length is the number of failures.
C7_Unwrap ==
  last.op = "Unwrap" =>
    LET F == WrappedErrors(heap, last.recv)
    IN /\ Len(F) = 0 => last.res = Nil
       /\ Len(F) = 1 => last.res = F[1]
       /\ Len(F) >= 2 =>
            /\ last.res.k = "chain"
            /\ ChainErrs(heap, last.res)[1] = F[1]
            /\ Len(ChainErrs(heap, last.res)) = Len(F)

\* Unwrap has returned a chain over three failures.
C7_Witness ==
  /\ last.op = "Unwrap"
  /\ IsMultiVal(last.recv)
  /\ Len(heap[last.recv.ref].Failures) = 3
  /\ last.res.k = "chain"

\* ------------------------------------------------------- walking a chain
\* Failures without causes of their own.
WalkLeaves == {E1, E2, Plain(3)}

InitWalk ==
  /\ heap \in {<<Literal(l)>> : l \in SeqsUpTo(WalkLeaves, Min(MaxLen, MaxCells))}
  /\ pc = "run"
  /\ last = [op |-> "Init"]
  /\ walk = NoWalk
  /\ grp = NoGroup
  /\ tasks = <<>>
  /\ mainpc = "idle"
  /\ catalog = NoCatalog

\* current = errors.Unwrap(err): the first step of a walk over aggregate e;
\* snap keeps the failures e holds at this moment.
WalkStart(e) ==
  /\ walk' = [on |-> TRUE, snap |-> WrappedErrors(heap, e), k |-> 1,
              cur |-> ErrorsUnwrap(heap, e), touched |-> FALSE]
  /\ last' = [op |-> "Walk"]
  /\ UNCHANGED <<heap, pc, grp, tasks, mainpc, catalog>>

\* current = errors.Unwrap(current)
WalkNext ==
  /\ walk.on
  /\ walk.cur # Nil
  /\ walk' = [walk EXCEPT !.cur = ErrorsUnwrap(heap, walk.cur), !.k = @ + 1]
  /\ last' = [op |-> "Walk"]
  /\ UNCHANGED <<heap, pc, grp, tasks, mainpc, catalog>>

\* sort.Sort(e)
SortCall(e) ==
  /\ heap' = SortMulti(heap, e).h
  /\ last' = [op |-> "Sort", recv |-> e, panic |-> SortMulti(heap, e).panic]
  /\ walk' = Touched(walk)
  /\ UNCHANGED <<pc, grp, tasks, mainpc, catalog>>

NextWalk ==
  \/ \E e \in Ptrs(heap) : WalkStart(e)
  \/ WalkNext
  \/ \E e \in Ptrs(heap) : \E x \in WalkLeaves : AppendCall(e, <<x>>, FALSE)
  \/ \E e \in Ptrs(heap) : SortCall(e)

SpecWalk == InitWalk /\ [][NextWalk]_vars

\* C8: walking an Aggregate of N failures without causes by repeated Unwrap
\* yields at step k <= N an error for which Is(failures[k]) holds and at
\* step N+1 nil; every chain met on the way is non-empty.
C8_Walk ==
  (walk.on /\ ~walk.touched) =>
    LET N == Len(walk.snap)
    IN /\ walk.k <= N + 1
       /\ walk.k <= N => ErrorsIs(heap, walk.cur, walk.snap[walk.k])
       /\ walk.k = N + 1 => walk.cur = Nil
       /\ walk.cur.k = "chain" => ChainErrs(heap, walk.cur) # <<>>

\* The walk has reached the last of three failures.
C8_Witness ==
  /\ walk.on
  /\ ~walk.touched
  /\ Len(walk.snap) = 3
  /\ walk.k = 3
  /\ walk.cur.k = "chain"

\* C9: a chain produced by Unwrap on two or more failures is a private
\* snapshot: whatever is appended to the Aggregate or however it is sorted
\* afterwards, the walk meets the failures held when Unwrap was called, in
\* that order.
C9_Snapshot ==
  (walk.on /\ Len(walk.snap) >= 2) =>
    LET N == Len(walk.snap)
    IN /\ walk.k <= N + 1
       /\ walk.k <= N =>
            /\ walk.cur.k = "chain"
            /\ ChainErrs(heap, walk.cur) = SubSeq(walk.snap, walk.k, N)
       /\ walk.k = N + 1 => walk.cur = Nil

\* The walk is under way on a chain whose aggregate has since been put in
\* another order.
C9_Witness ==
  /\ walk.on
  /\ walk.touched
  /\ walk.k >= 2
  /\ walk.cur.k = "chain"
  /\ Len(heap[1].Failures) >= Len(walk.snap)
  /\ SubSeq(heap[1].Failures, 1, Len(walk.snap)) # walk.snap

\* ------------------------------------------------------------------ Group
\* What the submitted functions return: nothing, a nil *Multi held in an
\* error, a plain error, or the aggregate built beforehand.
GroupResults == {Nil, TypedNil, E1, E2, MultiPtr(1)}

InitGroup ==
  /\ heap = <<Literal(<<E1, E2>>)>>
  /\ pc = "run"
  /\ last = [op |-> "Init"]
  /\ walk = NoWalk
  /\ grp = NoGroup
  /\ tasks = <<>>
  /\ mainpc = "idle"
  /\ catalog = NoCatalog

\* Variant of the counter update of Go that does not count the task.
WgAdd_None(wg) == wg

\* g.wg.Add(1)
WgAdd(wg) == wg + 1

\* Variant of the store under the mutex that forgets what g.err held.
GroupAppend_Fresh(h, gerr, r) == AppendErrs(h, TypedNil, <<r>>)

\* g.err = Append(g.err, err)
GroupAppend(h, gerr, r) == AppendErrs(h, gerr, <<r>>)

\* Variant of Done that leaves the counter as it is.
WgDone_None(wg) == wg

\* g.wg.Done()
WgDone(wg) == wg - 1

\* Variant of Lock that does not wait for the mutex to be free.
MutexLock_NoWait(mutex) == TRUE

\* g.mutex.Lock() can return: the mutex is free.
MutexLock(mutex) == mutex = 0

\* Variant of Unlock that leaves the mutex with its owner.
MutexUnlock_Keep(mutex) == mutex

\* g.mutex.Unlock()
MutexUnlock(mutex) == 0

\* Group.Go up to the go statement: the counter is raised.  One caller
\* submits, so the previous Go call has returned.
GoAdd(r) ==
  /\ Len(tasks) < MaxTasks
  /\ \A i \in DOMAIN tasks : tasks[i].pc # "add"
  /\ grp' = [grp EXCEPT !.wg = WgAdd(@), !.quiet = FALSE]
  /\ tasks' = Append(tasks, [res |-> r, pc |-> "add", early |-> FALSE,
                             tmp |-> Nil])
  /\ UNCHANGED <<heap, pc, last, walk, mainpc, catalog>>

\* The go statement: the goroutine exists and Go returns.  early records
\* that this happened before Wait was called.
GoSpawn(i) ==
  /\ tasks[i].pc = "add"
  /\ tasks' = [tasks EXCEPT ![i].pc = "start", ![i].early = (mainpc = "idle")]
  /\ UNCHANGED <<heap, pc, last, walk, grp, mainpc, catalog>>

\* err := f(); err != nil
TaskCall(i) ==
  /\ tasks[i].pc = "start"
  /\ tasks' = [tasks EXCEPT ![i].pc = IF tasks[i].res = Nil THEN "defer"
                                      ELSE "lock"]
  /\ UNCHANGED <<heap, pc, last, walk, grp, mainpc, catalog>>

\* g.mutex.Lock() in the goroutine
TaskLock(i) ==
  /\ tasks[i].pc = "lock"
  /\ MutexLock(grp.mutex)
  /\ grp' = [grp EXCEPT !.mutex = i]
  /\ tasks' = [tasks EXCEPT ![i].pc = "locked"]
  /\ UNCHANGED <<heap, pc, last, walk, mainpc, catalog>>

\* g.err = Append(g.err, err), the call: the aggregate is extended in place
\* or made, the pointer returned is not yet stored.
TaskAppend(i) ==
  LET c == GroupAppend(heap, grp.err, tasks[i].res)
  IN /\ tasks[i].pc = "locked"
     /\ heap' = c.h
     /\ tasks' = [tasks EXCEPT ![i].pc = "store", ![i].tmp = c.res]
     /\ UNCHANGED <<pc, last, walk, grp, mainpc, catalog>>

\* g.err = Append(g.err, err), the assignment
TaskStore(i) ==
  /\ tasks[i].pc = "store"
  /\ grp' = [grp EXCEPT !.err = tasks[i].tmp]
  /\ tasks' = [tasks EXCEPT ![i].pc = "unlock"]
  /\ UNCHANGED <<heap, pc, last, walk, mainpc, catalog>>

\* g.mutex.Unlock() in the goroutine
TaskUnlock(i) ==
  /\ tasks[i].pc = "unlock"
  /\ grp' = [grp EXCEPT !.mutex = MutexUnlock(@)]
  /\ tasks' = [tasks EXCEPT ![i].pc = "defer"]
  /\ UNCHANGED <<heap, pc, last, walk, mainpc, catalog>>

\* defer g.wg.Done()
TaskDone(i) ==
  /\ tasks[i].pc = "defer"
  /\ grp' = [grp EXCEPT !.wg = WgDone(@)]
  /\ tasks' = [tasks EXCEPT ![i].pc = "done"]
  /\ UNCHANGED <<heap, pc, last, walk, mainpc, catalog>>

\* Group.Wait is called, possibly while Go is still submitting.
WaitCall ==
  /\ mainpc = "idle"
  /\ mainpc' = "barrier"
  /\ UNCHANGED <<heap, pc, last, walk, grp, tasks, catalog>>

\* g.wg.Wait()
WaitBarrier ==
  /\ mainpc = "barrier"
  /\ grp.wg = 0
  /\ mainpc' = "lock"
  /\ UNCHANGED <<heap, pc, last, walk, grp, tasks, catalog>>

\* g.mutex.Lock() in Wait
WaitLock ==
  /\ mainpc = "lock"
  /\ MutexLock(grp.mutex)
  /\ grp' = [grp EXCEPT !.mutex = -1]
  /\ mainpc' = "locked"
  /\ UNCHANGED <<heap, pc, last, walk, tasks, catalog>>

\* return g.err, then the deferred g.mutex.Unlock().  quiet records that
\* every task submitted so far is over, snap what the Group held.
WaitReturn ==
  /\ mainpc = "locked"
  /\ grp' = [grp EXCEPT !.ret = grp.err, !.mutex = MutexUnlock(@),
                        !.quiet = \A i \in DOMAIN tasks : tasks[i].pc = "done",
                        !.snap = <<heap, grp.err, grp.wg>>]
  /\ mainpc' = "returned"
  /\ UNCHANGED <<heap, pc, last, walk, tasks, catalog>>

\* Group.Wait is called once more after it has returned.
WaitAgainCall ==
  /\ mainpc = "returned"
  /\ mainpc' = "barrier2"
  /\ UNCHANGED <<heap, pc, last, walk, grp, tasks, catalog>>

\* g.wg.Wait() of the second call
WaitAgainBarrier ==
  /\ mainpc = "barrier2"
  /\ grp.wg = 0
  /\ mainpc' = "lock2"
  /\ UNCHANGED <<heap, pc, last, walk, grp, tasks, catalog>>

\* g.mutex.Lock() of the second call
WaitAgainLock ==
  /\ mainpc = "lock2"
  /\ MutexLock(grp.mutex)
  /\ grp' = [grp EXCEPT !.mutex = -1]
  /\ mainpc' = "locked2"
  /\ UNCHANGED <<heap, pc, last, walk, tasks, catalog>>

\* return g.err and the deferred g.mutex.Unlock() of the second call
WaitAgainReturn ==
  /\ mainpc = "locked2"
  /\ grp' = [grp EXCEPT !.again = grp.err, !.mutex = MutexUnlock(@)]
  /\ mainpc' = "returned2"
  /\ UNCHANGED <<heap, pc, last, walk, tasks, catalog>>

\* The Group with one call of Wait.
NextGroupOnce ==
  \/ \E r \in GroupResults : GoAdd(r)
  \/ \E i \in DOMAIN tasks : GoSpawn(i)
  \/ \E i \in DOMAIN tasks : TaskCall(i)
  \/ \E i \in DOMAIN tasks : TaskLock(i)
  \/ \E i \in DOMAIN tasks : TaskAppend(i)
  \/ \E i \in DOMAIN tasks : TaskStore(i)
  \/ \E i \in DOMAIN tasks : TaskUnlock(i)
  \/ \E i \in DOMAIN tasks : TaskDone(i)
  \/ WaitCall
  \/ WaitBarrier
  \/ WaitLock
  \/ WaitReturn

NextGroup ==
  \/ NextGroupOnce
  \/ WaitAgainCall
  \/ WaitAgainBarrier
  \/ WaitAgainLock
  \/ WaitAgainReturn

SpecGroup == InitGroup /\ [][NextGroup]_vars

\* How often x occurs in the list l.
Count(l, x) == Cardinality({i \in DOMAIN l : l[i] = x})

\* The lists hold the same elements, each as often.
SameBag(a, b) ==
  \A x \in {a[i] : i \in DOMAIN a} \cup {b[i] : i \in DOMAIN b} :
    Count(a, x) = Count(b, x)

\* Every element of a occurs in b at least as often.
SubBag(a, b) == \A x \in {a[i] : i \in DOMAIN a} : Count(a, x) <= Count(b, x)

RECURSIVE Concat(_)
Concat(ls) == IF ls = <<>> THEN <<>> ELSE Head(ls) \o Concat(Tail(ls))

\* The results of the tasks that are neither nil nor a nil aggregate.
NonNilResults(ts) ==
  Concat([i \in DOMAIN ts |->
            IF ts[i].res \in {Nil, TypedNil} THEN <<>> ELSE <<ts[i].res>>])

\* What Append adds for one result: nothing for nil, its failures for an
\* aggregate, the result itself otherwise.
Contribution(h, r) ==
  IF r = Nil THEN <<>>
  ELSE IF r.k = "multi" THEN WrappedErrors(h, r)
  ELSE <<r>>

Contributions(h, ts) ==
  Concat([i \in DOMAIN ts |-> Contribution(h, ts[i].res)])

\* Wait has returned and every Go call had returned before Wait was called.
WaitedForAll ==
  /\ mainpc = "returned"
  /\ \A i \in DOMAIN tasks : tasks[i].early

\* C5 (as stated): once Wait returns, the failures of the returned Aggregate
\* are exactly the non-nil results of the submitted tasks, each once; with
\* no non-nil result Wait returns a nil Aggregate whose ErrorOrNil is nil.
C5_AsStated ==
  WaitedForAll =>
    /\ SameBag(WrappedErrors(heap, grp.ret), NonNilResults(tasks))
    /\ NonNilResults(tasks) = <<>> =>
         (grp.ret = TypedNil /\ ErrorOrNil(heap, grp.ret) = Nil)

\* C5 (amended): once Wait returns, the failures of the returned Aggregate
\* are exactly what the results contribute, each once: a result that is an
\* Aggregate contributes its failures one by one (none for a nil Aggregate
\* reference), any other non-nil result contributes itself.  Wait returns a
\* nil Aggregate exactly when every result was the nil error, and ErrorOrNil
\* of what it returns is nil whenever nothing was contributed.
C5_Group ==
  WaitedForAll =>
    /\ SameBag(WrappedErrors(heap, grp.ret), Contributions(heap, tasks))
    /\ grp.ret = TypedNil <=> (\A i \in DOMAIN tasks : tasks[i].res = Nil)
    /\ Contributions(heap, tasks) = <<>> => ErrorOrNil(heap, grp.ret) = Nil

\* Two tasks have each returned an error, Wait has returned both.
C5_Witness ==
  /\ WaitedForAll
  /\ Len(tasks) = 2
  /\ tasks[1].res = E1
  /\ tasks[2].res = E2
  /\ Len(WrappedErrors(heap, grp.ret)) = 2

\* C6: once Wait is past its barrier, every task whose Go call returned
\* before Wait was called has completed and what its result contributes is
\* in the Group's aggregate.
C6_Drained ==
  mainpc \in {"lock", "locked", "returned"} =>
    LET early == SelectSeq(tasks, LAMBDA t : t.early)
    IN /\ \A i \in DOMAIN early : early[i].pc = "done"
       /\ SubBag(Contributions(heap, early), WrappedErrors(heap, grp.err))

\* Wait has returned the failure of a task submitted before it, while a
\* task submitted during it is still on its way.
C6_Witness ==
  /\ mainpc = "returned"
  /\ \E i \in DOMAIN tasks :
       /\ tasks[i].early
       /\ tasks[i].res = E1
  /\ \E i \in DOMAIN tasks :
       /\ ~tasks[i].early
       /\ tasks[i].pc \notin {"add", "done"}

\* ---------------------------------------------------------------- Flatten
RECURSIVE flatten(_, _, _), flattenRange(_, _, _)

\* Variant of flatten that expands an aggregate by one level only.
flatten_OneLevel(h, err, acc) ==
  IF acc.panic THEN acc
  ELSE IF err.k = "multi"
       THEN IF err.ref = 0 THEN [acc EXCEPT !.panic = TRUE]
            ELSE [acc EXCEPT !.errs = @ \o h[err.ref].Failures]
       ELSE [acc EXCEPT !.errs = Append(@, err)]

\* flatten(err, flatErr): acc.errs is flatErr.Failures; ranging over the
\* Failures of a nil *Multi is a nil pointer dereference.
flatten(h, err, acc) ==
  IF acc.panic THEN acc
  ELSE IF err.k = "multi"
       THEN IF err.ref = 0 THEN [acc EXCEPT !.panic = TRUE]
            ELSE flattenRange(h, h[err.ref].Failures, acc)
       ELSE [acc EXCEPT !.errs = Append(@, err)]

\* for _, e := range err.Failures { flatten(e, flatErr) }
flattenRange(h, l, acc) ==
  IF l = <<>> THEN acc
  ELSE flattenRange(h, Tail(l), flatten(h, Head(l), acc))

\* Variant of Flatten that collects into the aggregate it was given.
Flatten_InPlace(h, err) ==
  IF err.k # "multi" THEN [h |-> h, res |-> err, panic |-> FALSE]
  ELSE LET f == flatten(h, err, [errs |-> <<>>, panic |-> FALSE])
       IN IF f.panic THEN [h |-> h, res |-> Nil, panic |-> TRUE]
          ELSE [h |-> [h EXCEPT ![err.ref].Failures = f.errs],
                res |-> err, panic |-> FALSE]

\* Flatten(err)
Flatten(h, err) ==
  IF err.k # "multi" THEN [h |-> h, res |-> err, panic |-> FALSE]
  ELSE LET f == flatten(h, err, [errs |-> <<>>, panic |-> FALSE])
       IN IF f.panic THEN [h |-> h, res |-> Nil, panic |-> TRUE]
          ELSE [h |-> h \o <<[Failures |-> f.errs, Formatter |-> "nil"]>>,
                res |-> MultiPtr(Len(h) + 1), panic |-> FALSE]

\* Failures held by the aggregates handed to Flatten.
FlatLeaves == {Nil, E1, E2}

\* Arguments handed to Flatten.
FlattenArgs(h) == {Nil, E1, Wrapped(E2), TypedNil} \cup Ptrs(h)

InitFlat ==
  /\ heap = <<>>
  /\ pc = "run"
  /\ last = [op |-> "Init"]
  /\ walk = NoWalk
  /\ grp = NoGroup
  /\ tasks = <<>>
  /\ mainpc = "idle"
  /\ catalog = NoCatalog

\* Multiple(errs): an aggregate over plain errors and the aggregates built
\* before it.
MultipleCall(errs) ==
  LET c == Multiple(heap, errs, "list")
  IN /\ pc = "run"
     /\ Len(c.h) <= MaxObjs + 1
     /\ Cells(c.h) <= MaxCells + 1
     /\ heap' = c.h
     /\ UNCHANGED <<pc, last, walk, grp, tasks, mainpc, catalog>>

\* Flatten(e)
FlattenCall(e) ==
  LET c == Flatten(heap, e)
  IN /\ pc = "run"
     /\ heap' = c.h
     /\ last' = [op |-> "Flatten", err |-> e, res |-> c.res, panic |-> c.panic]
     /\ pc' = "done"
     /\ UNCHANGED <<walk, grp, tasks, mainpc, catalog>>

NextFlat ==
  /\ pc = "run"
  /\ \/ /\ Len(heap) <= MaxObjs
        /\ \E errs \in SeqsUpTo(FlatLeaves \cup Ptrs(heap),
                                Min(MaxLen, MaxCells + 1 - Cells(heap))) :
             MultipleCall(errs)
     \/ \E e \in FlattenArgs(heap) : FlattenCall(e)

SpecFlat == InitFlat /\ [][NextFlat]_vars

\* The failures that are not aggregates, met when the failures of e are
\* read left to right and every aggregate among them is read in its place.
RECURSIVE LeavesOf(_, _)
LeavesOf(h, e) ==
  IF IsMultiVal(e)
  THEN Concat([i \in 1..Len(h[e.ref].Failures) |->
                 LeavesOf(h, h[e.ref].Failures[i])])
  ELSE <<e>>

\* Aggregate e holds an aggregate that holds an aggregate.
NestedTwice(h, e) ==
  \E i \in 1..Len(h[e.ref].Failures) :
    LET x == h[e.ref].Failures[i]
    IN /\ IsMultiVal(x)
       /\ \E j \in 1..Len(h[x.ref].Failures) : IsMultiVal(h[x.ref].Failures[j])

C12_FlattenFrame ==
  [][last'.op = "Flatten" =>
       /\ \A r \in Refs(heap) : r \in Refs(heap') /\ heap'[r] = heap[r]
       /\ IsMultiVal(last'.err) =>
            (IsMultiVal(last'.res) /\ last'.res.ref \notin Refs(heap))]_vars

\* Flatten has returned a list other than the one of the nested aggregate it
\* was given.
C12_Witness ==
  /\ last.op = "Flatten"
  /\ IsMultiVal(last.err)
  /\ IsMultiVal(last.res)
  /\ \E i \in 1..Len(heap[last.err.ref].Failures) :
       IsMultiVal(heap[last.err.ref].Failures[i])
  /\ heap[last.res.ref].Failures # heap[last.err.ref].Failures

\* ------------------------------------------------------------- formatting
\* Elements of the lists that are formatted.
FormatLeaves == {Nil, TypedNil, E1, E2}

\* The formatter Multiple stores for its optional argument.
MultipleFn(opt) == IF Len(opt) > 0 /\ opt[1] # "nil" THEN opt[1] ELSE "list"

InitFormat ==
  /\ heap = <<>>
  /\ pc = "run"
  /\ last = [op |-> "Init"]
  /\ walk = NoWalk
  /\ grp = NoGroup
  /\ tasks = <<>>
  /\ mainpc = "idle"
  /\ catalog = NoCatalog

\* Multiple(errs, opt...)
MultipleOptCall(errs, opt) ==
  LET c == Multiple(heap, errs, MultipleFn(opt))
  IN /\ WithinBounds(c.h)
     /\ heap' = c.h
     /\ UNCHANGED <<pc, last, walk, grp, tasks, mainpc, catalog>>

\* &Multi{Failures: errs}
LiteralCall(errs) ==
  /\ WithinBounds(heap \o <<Literal(errs)>>)
  /\ heap' = heap \o <<Literal(errs)>>
  /\ UNCHANGED <<pc, last, walk, grp, tasks, mainpc, catalog>>

NextFormat ==
  /\ pc = "run"
  /\ \/ /\ Len(heap) < MaxObjs
        /\ \E errs \in SeqsUpTo(FormatLeaves \cup Ptrs(heap),
                                Min(MaxLen, MaxCells - Cells(heap))) :
             \/ \E opt \in {<<>>, <<"nil">>, <<"custom">>} :
                  MultipleOptCall(errs, opt)
             \/ LiteralCall(errs)
     \/ \E e \in Receivers(heap) : ErrorCall(e)

SpecFormat == InitFormat /\ [][NextFormat]_vars

\* "1 error occurred:" and " errors occurred:"
StrOneError == <<49, 32, 101, 114, 114, 111, 114, 32, 111, 99, 99, 117, 114, 114, 101, 100, 58>>
StrErrors == <<32, 101, 114, 114, 111, 114, 115, 32, 111, 99, 99, 117, 114, 114, 101, 100, 58>>

\* Every element of the list has a display string of its own.
AllDisplayable(h, es) ==
  \A i \in 1..Len(es) : es[i] # Nil /\ ~IsNilPtr(es[i])

\* The header, then newline and tab, then one bullet "* <display string>"
\* per failure with newline and tab between them, then two newlines.
Rendered(h, es) ==
  (IF Len(es) = 1 THEN StrOneError ELSE Itoa(Len(es)) \o StrErrors)
  \o <<10, 9>>
  \o Join([i \in 1..Len(es) |-> <<42, 32>> \o ErrorString(h, es[i])], <<10, 9>>)
  \o <<10, 10>>

\* C13: Error() of an Aggregate without a custom Formatter is the header
\* "1 error occurred:" (one failure) or "<N> errors occurred:", then one
\* bullet per failure in list order, and ends with two newlines; with a
\* custom Formatter it is what that formatter returns.
C13_Format ==
  (last.op = "Error" /\ IsMultiVal(last.recv)) =>
    IF heap[last.recv.ref].Formatter = "custom"
    THEN last.res = StrFoo
    ELSE AllDisplayable(heap, heap[last.recv.ref].Failures) =>
           last.res = Rendered(heap, heap[last.recv.ref].Failures)

\* The default formatter has rendered "foo" before "bar".
C13_Witness ==
  /\ last.op = "Error"
  /\ IsMultiVal(last.recv)
  /\ heap[last.recv.ref].Formatter = "list"
  /\ heap[last.recv.ref].Failures = <<E1, E2>>
  /\ Len(last.res) = 34
  /\ last.res[1] = 50

\* ---------------------------------------------------- sorting longer lists
\* The two algorithms sort.Sort has had for at most twelve elements: up to
\* Go 1.18 quickSort ends in
\*   if b-a > 1 {
\*     for i := a + 6; i < b; i++ {
\*       if data.Less(i, i-6) { data.Swap(i, i-6) } }
\*     insertionSort(data, a, b) }
\* and from Go 1.19 pdqsort starts with insertionSort(data, a, b) alone.
GoBuilds == {"go1.18", "go1.19"}

RECURSIVE ShellPass(_, _, _)
ShellPass(h, s, i) ==
  IF i > Len(s) THEN [s |-> s, panic |-> FALSE]
  ELSE IF LessPanics(h, s, i, i - 6) THEN [s |-> s, panic |-> TRUE]
  ELSE IF MultiLess(h, s, i, i - 6)
       THEN ShellPass(h, MultiSwap(s, i, i - 6), i + 1)
       ELSE ShellPass(h, s, i + 1)

\* sort.Sort(e) for a non-nil *Multi e of at most twelve failures, as the
\* given release of the library does it.
SortBuild(h, e, build) ==
  LET s == h[e.ref].Failures
      p == IF build = "go1.18" /\ Len(s) > 1
           THEN ShellPass(h, s, 7)
           ELSE [s |-> s, panic |-> FALSE]
      r == IF p.panic THEN p ELSE InsertionSort(h, p.s, 2)
  IN [h |-> [h EXCEPT ![e.ref].Failures = r.s], panic |-> r.panic]

\* Plain errors, two of them with the same display string.
SortLeaves == {E1, E2, Plain(3), Plain(4)}

InitSort ==
  /\ heap \in {<<Literal(l)>> : l \in SeqsUpTo(SortLeaves, MaxSortLen)}
  /\ pc = "run"
  /\ last = [op |-> "Init"]
  /\ walk = NoWalk
  /\ grp = NoGroup
  /\ tasks = <<>>
  /\ mainpc = "idle"
  /\ catalog = NoCatalog

\* sort.Sort(e)
SortBuildCall(e, build) ==
  LET c == SortBuild(heap, e, build)
  IN /\ heap' = c.h
     /\ last' = [op |-> "Sort", recv |-> e, before |-> heap[e.ref].Failures,
                 build |-> build, panic |-> c.panic]
     /\ pc' = "done"
     /\ UNCHANGED <<walk, grp, tasks, mainpc, catalog>>

NextSort ==
  /\ pc = "run"
  /\ \E e \in Ptrs(heap) : \E build \in GoBuilds : SortBuildCall(e, build)

SpecSort == InitSort /\ [][NextSort]_vars

\* The display strings of the list are in non-decreasing order.
NonDecreasing(h, l) ==
  \A i \in 1..(Len(l) - 1) :
    ~StrLess(ErrorString(h, l[i + 1]), ErrorString(h, l[i]))

\* The elements of l whose display string is that of x, in their order.
WithStringOf(h, l, x) ==
  SelectSeq(l, LAMBDA y : ErrorString(h, y) = ErrorString(h, x))

\* Failures with equal display strings are in the same order in a and b.
SameOrderOfEquals(h, a, b) ==
  \A i \in 1..Len(a) : WithStringOf(h, a, a[i]) = WithStringOf(h, b, a[i])

\* C14: sort.Sort leaves the failure list a permutation of what it was, in
\* non-decreasing order of the display strings; a list of one is unchanged.
C14_Sort ==
  last.op = "Sort" =>
    LET after == heap[last.recv.ref].Failures
    IN /\ ~last.panic
       /\ SameBag(last.before, after)
       /\ NonDecreasing(heap, after)
       /\ Len(last.before) = 1 => after = last.before

\* "foo", "bar", "baz" have been sorted to "bar", "baz", "foo".
C14_Witness ==
  /\ last.op = "Sort"
  /\ last.before = <<E1, E2, Plain(3)>>
  /\ heap[last.recv.ref].Failures = <<E2, Plain(3), E1>>

\* C15 (as stated): sorting keeps failures with equal display strings in
\* their insertion order.
C15_AsStated ==
  last.op = "Sort" =>
    SameOrderOfEquals(heap, last.before, heap[last.recv.ref].Failures)

\* C15 (amended): sorting a list of at most six failures keeps failures with
\* equal display strings in their insertion order.
C15_StableUpToSix ==
  (last.op = "Sort" /\ Len(last.before) <= 6) =>
    SameOrderOfEquals(heap, last.before, heap[last.recv.ref].Failures)

\* Two failures with the same display string, not next to each other, have
\* been sorted with others that had to move.
C15_Witness ==
  /\ last.op = "Sort"
  /\ Len(last.before) = 4
  /\ last.before[1] = Plain(4)
  /\ last.before[2] = E1
  /\ last.before[3] = Plain(3)
  /\ last.before[4] = E2
  /\ heap[last.recv.ref].Failures = <<E2, Plain(4), Plain(3), E1>>

\* C16: through a nil *Multi, WrappedErrors returns no failures, ErrorOrNil
\* returns nil and Unwrap returns nil, none of them faulting.
C16_NilReceiver ==
  (last.op \in {"WrappedErrors", "ErrorOrNil", "Unwrap"} /\ last.recv = TypedNil) =>
    /\ last.op = "WrappedErrors" => last.res = <<>>
    /\ last.op = "ErrorOrNil" => last.res = Nil
    /\ last.op = "Unwrap" => last.res = Nil

\* WrappedErrors has been called through a nil *Multi while aggregates
\* with failures exist.
C16_Witness ==
  /\ last.op = "WrappedErrors"
  /\ last.recv = TypedNil
  /\ last.res = <<>>
  /\ Len(heap) > 0
  /\ Len(heap[1].Failures) > 0

\* C17: Error() never panics, also when it is called through a nil *Multi.
C17_ErrorTotal ==
  last.op = "Error" => last.res # Panic

\* What the %s verb prints for an element: "%!s(<nil>)" for nil, its
\* display string otherwise.
Printed(h, x) == IF x = Nil THEN StrFmtNil ELSE ErrorString(h, x)

\* One bullet per element of the list, nil or not.
RenderedAll(h, es) ==
  (IF Len(es) = 1 THEN StrOneError ELSE Itoa(Len(es)) \o StrErrors)
  \o <<10, 9>>
  \o Join([i \in 1..Len(es) |-> <<42, 32>> \o Printed(h, es[i])], <<10, 9>>)
  \o <<10, 10>>

HoldsNil(h, e) ==
  /\ IsMultiVal(e)
  /\ \E i \in 1..Len(h[e.ref].Failures) : h[e.ref].Failures[i] = Nil

\* C18: an Aggregate whose list holds a nil element is formatted without a
\* panic, with one bullet for each element, and Unwrap, Is and As go through
\* its list as through any other: the chain holds every element, Is finds a
\* target in the failures after the nil one, As the first value of the type.
C18_NilElement ==
  (last.op \in {"Error", "Unwrap", "Is", "As"}
     /\ HoldsNil(heap, IF last.op \in {"Is", "As"} THEN last.agg ELSE last.recv)) =>
    /\ last.op = "Error" =>
         /\ last.res # Panic
         /\ last.res = RenderedAll(heap, heap[last.recv.ref].Failures)
    /\ last.op = "Unwrap" =>
         IF Len(heap[last.recv.ref].Failures) = 1 THEN last.res = Nil
         ELSE /\ last.res.k = "chain"
              /\ ChainErrs(heap, last.res) = heap[last.recv.ref].Failures
    /\ last.op = "Is" =>
         (last.res <=> (last.target = last.agg
                          \/ InSomeFailure(heap, last.agg, last.target)))
    /\ (last.op = "As" /\ last.T # "*failure.Multi") =>
         last.res = FirstInList(heap, heap[last.agg.ref].Failures, last.T)

\* A target wrapped in the failure after a nil element has been found.
C18_Witness ==
  /\ last.op = "Is"
  /\ IsMultiVal(last.agg)
  /\ heap[last.agg.ref].Failures = <<Nil, Wrapped(N2)>>
  /\ last.target = N2
  /\ last.res

\* ---------------------------------------------- IsMultiple and MultiResult
\* Variant of IsMultiple that only looks at the type of e itself.
IsMultiple_TypeSwitch(h, e) == e.k = "multi"

\* IsMultiple(e)
IsMultiple(h, e) ==
  IF ErrorsAs(h, e, "*failure.Multi").ok THEN TRUE
  ELSE ErrorsAs(h, ErrorsUnwrap(h, e), "*failure.Multi").ok

\* MultiResult(e): a type assertion, then err.Failures, which dereferences
\* a nil *Multi.
MultiResult(h, e) ==
  IF e.k # "multi" THEN [list |-> <<>>, ok |-> FALSE, panic |-> FALSE]
  ELSE IF e.ref = 0 THEN [list |-> <<>>, ok |-> FALSE, panic |-> TRUE]
  ELSE [list |-> h[e.ref].Failures, ok |-> TRUE, panic |-> FALSE]

\* Errors handed to IsMultiple and MultiResult: nil, errors without an
\* aggregate, aggregates, and aggregates under one and two layers of Wrap.
IntroArgs(h) ==
  LET base == {E1, N1, TypedNil} \cup Ptrs(h)
  IN {Nil} \cup base \cup {Wrapped(x) : x \in base}
     \cup {Wrapped(Wrapped(x)) : x \in base}

\* IsMultiple(e)
IsMultipleCall(e) ==
  /\ last' = [op |-> "IsMultiple", err |-> e, res |-> IsMultiple(heap, e)]
  /\ pc' = "done"
  /\ UNCHANGED <<heap, walk, grp, tasks, mainpc, catalog>>

\* MultiResult(e)
MultiResultCall(e) ==
  LET r == MultiResult(heap, e)
  IN /\ last' = [op |-> "MultiResult", err |-> e, list |-> r.list,
                 ok |-> r.ok, panic |-> r.panic]
     /\ pc' = "done"
     /\ UNCHANGED <<heap, walk, grp, tasks, mainpc, catalog>>

NextIntro ==
  /\ pc = "run"
  /\ \/ \E e \in IntroArgs(heap) : IsMultipleCall(e)
     \/ \E e \in IntroArgs(heap) : MultiResultCall(e)

SpecIntro == InitChain /\ [][NextIntro]_vars

\* The cause chain of e holds a value of the Aggregate type.
RECURSIVE HasAggregate(_)
HasAggregate(e) ==
  \/ e.k = "multi"
  \/ e.k = "wrap" /\ HasAggregate(e.in)

\* C19: IsMultiple(e) is true when e is an Aggregate or one step of Unwrap
\* from e gives one; it is false for nil and for an error with no Aggregate
\* in its cause chain.
C19_IsMultiple ==
  last.op = "IsMultiple" =>
    /\ (last.err.k = "multi" \/ ErrorsUnwrap(heap, last.err).k = "multi")
         => last.res
    /\ last.err = Nil => ~last.res
    /\ ~HasAggregate(last.err) => ~last.res

\* An aggregate with failures, wrapped once, has been recognised.
C19_Witness ==
  /\ last.op = "IsMultiple"
  /\ last.err.k = "wrap"
  /\ IsMultiVal(last.err.in)
  /\ Len(heap[last.err.in.ref].Failures) >= 2
  /\ last.res

\* C20: MultiResult(e) reports ok exactly when IsMultiple(e) is true, then
\* with the failure list of the Aggregate, otherwise with an empty list.
C20_Agree ==
  last.op = "MultiResult" =>
    /\ ~last.panic
    /\ last.ok <=> IsMultiple(heap, last.err)
    /\ ~last.ok => last.list = <<>>
    /\ (last.ok /\ IsMultiVal(last.err)) =>
         last.list = heap[last.err.ref].Failures

\* ---------------------------------------------------------------- categories
\* The categories with a constructor, a predicate and a relabelling function,
\* named after their constructors.
Categories ==
  {"InvalidState", "NoChange", "Warn", "OutOfRange",
   "Panic", "MissingFromContext", "AlreadyExists", "Startup",
   "Timeout", "Config", "InvalidParam", "Ignore",
   "NotFound", "NotAuthorized", "NotAuthenticated", "Forbidden",
   "Validation", "Defer", "Shutdown", "Server",
   "System"}

\* The message constants XMsg, as byte strings.
SentinelMsg(c) ==
  CASE c = "BadRequest" ->  \* "bad request"
       <<98, 97, 100, 32, 114, 101, 113, 117, 101, 115, 116>>
    [] c = "InvalidAPIFields" ->  \* "http input fields are not valid"
       <<104, 116, 116, 112, 32, 105, 110, 112, 117, 116, 32, 102, 105, 101, 108, 100, 115, 32, 97, 114, 101, 32, 110, 111, 116, 32, 118, 97, 108, 105, 100>>
    [] c = "InvalidState" ->  \* "invalid state"
       <<105, 110, 118, 97, 108, 105, 100, 32, 115, 116, 97, 116, 101>>
    [] c = "NoChange" ->  \* "no change has occurred"
       <<110, 111, 32, 99, 104, 97, 110, 103, 101, 32, 104, 97, 115, 32, 111, 99, 99, 117, 114, 114, 101, 100>>
    [] c = "Warn" ->  \* "warning"
       <<119, 97, 114, 110, 105, 110, 103>>
    [] c = "OutOfRange" ->  \* "out of range failure"
       <<111, 117, 116, 32, 111, 102, 32, 114, 97, 110, 103, 101, 32, 102, 97, 105, 108, 117, 114, 101>>
    [] c = "Panic" ->  \* "panic"
       <<112, 97, 110, 105, 99>>
    [] c = "MissingFromContext" ->  \* "resource not in context"
       <<114, 101, 115, 111, 117, 114, 99, 101, 32, 110, 111, 116, 32, 105, 110, 32, 99, 111, 110, 116, 101, 120, 116>>
    [] c = "AlreadyExists" ->  \* "duplicate resource already exists"
       <<100, 117, 112, 108, 105, 99, 97, 116, 101, 32, 114, 101, 115, 111, 117, 114, 99, 101, 32, 97, 108, 114, 101, 97, 100, 121, 32, 101, 120, 105, 115, 116, 115>>
    [] c = "Startup" ->  \* "failure occurred during startup"
       <<102, 97, 105, 108, 117, 114, 101, 32, 111, 99, 99, 117, 114, 114, 101, 100, 32, 100, 117, 114, 105, 110, 103, 32, 115, 116, 97, 114, 116, 117, 112>>
    [] c = "Timeout" ->  \* "timeout failure"
       <<116, 105, 109, 101, 111, 117, 116, 32, 102, 97, 105, 108, 117, 114, 101>>
    [] c = "Config" ->  \* "config failure"
       <<99, 111, 110, 102, 105, 103, 32, 102, 97, 105, 108, 117, 114, 101>>
    [] c = "InvalidParam" ->  \* "invalid param failure"
       <<105, 110, 118, 97, 108, 105, 100, 32, 112, 97, 114, 97, 109, 32, 102, 97, 105, 108, 117, 114, 101>>
    [] c = "Ignore" ->  \* "ignore failure"
       <<105, 103, 110, 111, 114, 101, 32, 102, 97, 105, 108, 117, 114, 101>>
    [] c = "NotFound" ->  \* "not found failure"
       <<110, 111, 116, 32, 102, 111, 117, 110, 100, 32, 102, 97, 105, 108, 117, 114, 101>>
    [] c = "NotAuthorized" ->  \* "not authorized failure"
       <<110, 111, 116, 32, 97, 117, 116, 104, 111, 114, 105, 122, 101, 100, 32, 102, 97, 105, 108, 117, 114, 101>>
    [] c = "NotAuthenticated" ->  \* "not authenticated failure"
       <<110, 111, 116, 32, 97, 117, 116, 104, 101, 110, 116, 105, 99, 97, 116, 101, 100, 32, 102, 97, 105, 108, 117, 114, 101>>
    [] c = "Forbidden" ->  \* "access is forbidden"
       <<97, 99, 99, 101, 115, 115, 32, 105, 115, 32, 102, 111, 114, 98, 105, 100, 100, 101, 110>>
    [] c = "Validation" ->  \* "validation failure"
       <<118, 97, 108, 105, 100, 97, 116, 105, 111, 110, 32, 102, 97, 105, 108, 117, 114, 101>>
    [] c = "Defer" ->  \* "failure occurred inside defer"
       <<102, 97, 105, 108, 117, 114, 101, 32, 111, 99, 99, 117, 114, 114, 101, 100, 32, 105, 110, 115, 105, 100, 101, 32, 100, 101, 102, 101, 114>>
    [] c = "Shutdown" ->  \* "system shutdown failure"
       <<115, 121, 115, 116, 101, 109, 32, 115, 104, 117, 116, 100, 111, 119, 110, 32, 102, 97, 105, 108, 117, 114, 101>>
    [] c = "Server" ->  \* "server failure"
       <<115, 101, 114, 118, 101, 114, 32, 102, 97, 105, 108, 117, 114, 101>>
    [] c = "System" ->  \* "system failure"
       <<115, 121, 115, 116, 101, 109, 32, 102, 97, 105, 108, 117, 114, 101>>

\* The sentinel of a category: a value of the string type err, equal to
\* another err value exactly when the two strings are equal.
Sentinel(c) == [k |-> "err", msg |-> SentinelMsg(c)]

StrNoVerb == <<37, 33, 40, 78, 79, 86, 69, 82, 66, 41>>
StrBadVerb == <<37, 33>>
StrMissing == <<40, 77, 73, 83, 83, 73, 78, 71, 41>>
StrStringIs == <<40, 115, 116, 114, 105, 110, 103, 61>>
StrExtra == <<37, 33, 40, 69, 88, 84, 82, 65, 32>>
StrComma == <<44, 32>>
StrClose == <<41>>
StrNilOperand == <<37, 33, 119, 40, 60, 110, 105, 108, 62, 41>>

\* The loop of fmt's doPrintf from argument number n on, for formats without
\* flags, widths or argument indexes and for arguments that are strings.
RECURSIVE doPrintf(_, _, _)
doPrintf(format, a, n) ==
  IF format = <<>>
  THEN IF n <= Len(a)
       THEN StrExtra
            \o Join([i \in 1..(Len(a) - n + 1) |-> Tail(StrStringIs) \o a[n + i - 1]],
                    StrComma)
            \o StrClose
       ELSE <<>>
  ELSE IF Head(format) # 37
  THEN <<Head(format)>> \o doPrintf(Tail(format), a, n)
  ELSE IF Len(format) = 1
  THEN StrNoVerb \o doPrintf(<<>>, a, n)
  ELSE LET verb == format[2]
           rest == SubSeq(format, 3, Len(format))
       IN IF verb = 37 THEN <<37>> \o doPrintf(rest, a, n)
          ELSE IF n > Len(a)
          THEN StrBadVerb \o <<verb>> \o StrMissing \o doPrintf(rest, a, n)
          ELSE IF verb \in {115, 118}
          THEN a[n] \o doPrintf(rest, a, n + 1)
          ELSE StrBadVerb \o <<verb>> \o StrStringIs \o a[n] \o StrClose
               \o doPrintf(rest, a, n + 1)

\* fmt.Sprintf(format, a...)
Sprintf(format, a) == doPrintf(format, a, 1)

\* Variant of Wrap that keeps the message and drops the cause.
Wrap_NoCause(h, err, msg, a) ==
  [k |-> "text", msg |-> Sprintf(msg, a) \o StrWrapSep \o FmtS(h, err)]

\* Wrap: fmt.Errorf("%s: %w", fmt.Sprintf(msg, a...), err).  The text is fixed
\* when the value is made; Errorf returns a plain error for a nil operand.
Wrap(h, err, msg, a) ==
  IF err = Nil
  THEN [k |-> "text", msg |-> Sprintf(msg, a) \o StrWrapSep \o StrNilOperand]
  ELSE [k |-> "wrapf", msg |-> Sprintf(msg, a) \o StrWrapSep \o FmtS(h, err),
        in |-> err]

\* The constructor X(format, a...) of category c.
Category(h, c, format, a) == Wrap(h, Sentinel(c), format, a)

\* Variant of IsX that compares the direct cause of e with the sentinel.
IsCategory_Direct(h, c, e) == ErrorsUnwrap(h, e) = Sentinel(c)

\* The predicate IsX(e) of category c.
IsCategory(h, c, e) == ErrorsIs(h, e, Sentinel(c))

\* ToX(e, format, a...) of category c: the text of e is handed to the
\* constructor as its format.
ToCategory(h, c, e, format, a) ==
  LET text == ErrorString(h, e)
  IN IF text = Panic THEN [res |-> Nil, panic |-> TRUE]
     ELSE [res |-> Wrap(h, Category(h, c, text, <<>>), format, a),
           panic |-> FALSE]

IsAnyAuthFailure(h, e) ==
  \/ IsCategory(h, "NotAuthenticated", e)
  \/ IsCategory(h, "NotAuthorized", e)
  \/ IsCategory(h, "Forbidden", e)

\* ------------------------------------------- categories inside aggregates
\* Failures for the lists: nil, an uncategorised error, a Timeout failure, a
\* Validation failure under one more Wrap, and a timeout relabelled as a
\* Server failure.
CatLeaves ==
  {Nil, E1,
   Category(<<>>, "Timeout", StrFoo, <<>>),
   Wrap(<<>>, Category(<<>>, "Validation", StrBar, <<>>), StrFoo, <<>>),
   ToCategory(<<>>, "Server", Category(<<>>, "Timeout", StrFoo, <<>>),
              StrBar, <<>>).res}

\* The categories asked for: those of the failures and two others.
CatQueries == {"Timeout", "Validation", "Server", "System", "NotFound"}

\* IsX(e) for category c; the record keeps the call it follows.
IsCategoryCall(c, e) ==
  /\ last' = [op |-> "IsCategory", cat |-> c, arg |-> e,
              res |-> IsCategory(heap, c, e), after |-> last]
  /\ pc' = "done"
  /\ UNCHANGED <<heap, walk, grp, tasks, mainpc, catalog>>

NextCat ==
  /\ pc = "run"
  /\ \/ /\ Len(heap) < MaxObjs
        /\ \E errs \in SeqsUpTo(CatLeaves \cup Ptrs(heap),
                                Min(MaxLen, MaxCells - Cells(heap))) :
             LiteralCall(errs)
     \/ \E c \in CatQueries : \E e \in Ptrs(heap) : IsCategoryCall(c, e)

SpecCat == InitFormat /\ [][NextCat]_vars

\* A failure is tagged c when the sentinel of c is what a stack of Wrap
\* layers ends in, or when it is an aggregate holding a failure tagged c.
RECURSIVE Tagged(_, _, _)
Tagged(h, e, c) ==
  CASE e.k = "wrapf" -> e.in = Sentinel(c) \/ Tagged(h, e.in, c)
    [] IsMultiVal(e) ->
         \E i \in 1..Len(Failures(h, e)) : Tagged(h, Failures(h, e)[i], c)
    [] OTHER -> FALSE

\* C21: for an aggregate a and a category X, IsX(a) is true exactly when some
\* failure of a is tagged X, directly, under further Wrap layers or inside a
\* nested aggregate, at any position of the list.
C21_Reach ==
  (last.op = "IsCategory" /\ IsMultiVal(last.arg))
    => (last.res <=> Tagged(heap, last.arg, last.cat))

\* IsServer is true of an aggregate whose second failure is an aggregate
\* holding the relabelled failure after a Timeout failure.
C21_Witness ==
  /\ last.op = "IsCategory"
  /\ last.cat = "Server"
  /\ last.res
  /\ IsMultiVal(last.arg)
  /\ Len(Failures(heap, last.arg)) = 2
  /\ Failures(heap, last.arg)[1] = E1
  /\ IsMultiVal(Failures(heap, last.arg)[2])
  /\ Len(Failures(heap, Failures(heap, last.arg)[2])) = 1
  /\ Tagged(heap, Failures(heap, Failures(heap, last.arg)[2])[1], "Server")

\* ------------------------------------------------- tagging and relabelling
\* Formats are made of the letters a and s and of the percent sign.
FormatBytes == {97, 115, 37}
Formats == SeqsUpTo(FormatBytes, MaxFormat)
FormatArgs == {<<>>, <<StrFoo>>}

\* Errors of the caller: nil, a nil *Multi, errors with the texts "foo",
\* "50%" and "%d", a value of the caller's own type, an aggregate and a
\* Timeout failure.
TagArgs(h) ==
  {Nil, TypedNil, E1, Plain(5), Plain(6), N1,
   Category(h, "Timeout", StrFoo, <<>>)} \cup Ptrs(h)

InitTag ==
  /\ heap = <<Literal(<<E1, E2>>)>>
  /\ pc = "run"
  /\ last = [op |-> "Init"]
  /\ walk = NoWalk
  /\ grp = NoGroup
  /\ tasks = <<>>
  /\ mainpc = "idle"
  /\ catalog = NoCatalog

\* X(format, a...) for category c.
CategoryCall(c, format, a) ==
  /\ pc = "run"
  /\ last' = [op |-> "Category", cat |-> c, format |-> format, a |-> a,
              res |-> Category(heap, c, format, a)]
  /\ pc' = "made"
  /\ UNCHANGED <<heap, walk, grp, tasks, mainpc, catalog>>

\* ToX(e, format, a...) for category c.
ToCategoryCall(c, e, format, a) ==
  LET r == ToCategory(heap, c, e, format, a)
  IN /\ pc = "run"
     /\ last' = [op |-> "ToCategory", cat |-> c, e |-> e, format |-> format,
                 a |-> a, res |-> r.res, panic |-> r.panic]
     /\ pc' = "done"
     /\ UNCHANGED <<heap, walk, grp, tasks, mainpc, catalog>>

\* IsAnyAuthFailure(e)
IsAnyAuthFailureCall(e) ==
  /\ last' = [op |-> "IsAnyAuthFailure", arg |-> e,
              res |-> IsAnyAuthFailure(heap, e)]
  /\ pc' = "done"
  /\ UNCHANGED <<heap, walk, grp, tasks, mainpc, catalog>>

\* The operand of a predicate: an error of the caller, or the failure the
\* constructor has just returned.
TagOperands == IF pc = "made" THEN {last.res} ELSE TagArgs(heap)

NextTag ==
  /\ pc \in {"run", "made"}
  /\ \/ \E c \in Categories : \E f \in Formats : \E a \in FormatArgs :
          CategoryCall(c, f, a)
     \/ \E c \in Categories : \E e \in TagArgs(heap) :
          \E f \in Formats : \E a \in FormatArgs : ToCategoryCall(c, e, f, a)
     \/ \E c \in Categories : \E e \in TagOperands : IsCategoryCall(c, e)
     \/ \E e \in TagOperands : IsAnyAuthFailureCall(e)

SpecTag == InitTag /\ [][NextTag]_vars

\* C22: IsX(X(msg)) is true, IsY(X(msg)) is false for every other category
\* Y, and IsX(e) is false for an error e that no category constructor made.
C22_RoundTrip ==
  last.op = "IsCategory" =>
    /\ (last.after.op = "Category" /\ last.arg = last.after.res)
         => (last.res <=> last.cat = last.after.cat)
    /\ last.arg \in {E1, Plain(5), Plain(6), N1} => ~last.res

\* IsServer has been asked of a System failure and answered no.
C22_Witness ==
  /\ last.op = "IsCategory"
  /\ last.after.op = "Category"
  /\ last.after.cat = "System"
  /\ last.arg = last.after.res
  /\ last.cat = "Server"
  /\ ~last.res

\* The display string the relabelled error is meant to have.
Relabelled(h, c, e, format, a) ==
  Sprintf(format, a) \o StrWrapSep \o ErrorString(h, e) \o StrWrapSep
  \o SentinelMsg(c)

\* C23: for a category X and a non-nil error e, ToX(e, format, args...) is
\* an error of which IsX is true and whose display string is the formatted
\* message, the display string of e and the sentinel message of X, joined
\* by ": ".
C23_Relabel ==
  (last.op = "ToCategory" /\ last.e # Nil) =>
    /\ ~last.panic
    /\ IsCategory(heap, last.cat, last.res)
    /\ ErrorString(heap, last.res)
         = Relabelled(heap, last.cat, last.e, last.format, last.a)

\* ------------------------------------------------------------- REST errors
StatusBadRequest == 400
StatusUnprocessableEntity == 422
StatusInternalServerError == 500

\* A *RestAPI; identity is left out, RestNil is the nil pointer.
RestAPI(status, msg, fields, err) ==
  [k |-> "rest", StatusCode |-> status, Msg |-> msg, Fields |-> fields,
   Err |-> err]
RestNil == [k |-> "restnil"]

\* The field maps handed to InvalidFields: none, and one field "a": "foo".
NoFields == <<>>
OneField == [a |-> StrFoo]

NewInvalidFields(f, msg, a) ==
  RestAPI(StatusUnprocessableEntity, Sprintf(msg, a), f,
          Sentinel("InvalidAPIFields"))

NewBadRequest(msg, a) ==
  RestAPI(StatusBadRequest, Sprintf(msg, a), NoFields, Sentinel("BadRequest"))

ToBadRequest(e, msg, a) ==
  RestAPI(StatusBadRequest, Sprintf(msg, a), NoFields, e)

\* The outcome of a query that reads the status of the *RestAPI errors.As
\* has stored in r: a nil r makes the read panic.
RestQuery(h, e, found, missing) ==
  LET r == ErrorsAs(h, e, "*failure.RestAPI")
  IN IF ~r.ok THEN [res |-> missing, ok |-> FALSE, panic |-> FALSE]
     ELSE IF r.val = RestNil THEN [res |-> missing, ok |-> FALSE, panic |-> TRUE]
     ELSE [res |-> found[r.val.StatusCode], ok |-> TRUE, panic |-> FALSE]

Statuses ==
  {StatusBadRequest, StatusUnprocessableEntity, StatusInternalServerError}

IsInvalidFields(h, e) ==
  RestQuery(h, e, [s \in Statuses |-> s = StatusUnprocessableEntity], FALSE)

\* Variant of IsBadRequest that is content with any *RestAPI.
IsBadRequest_AnyRest(h, e) ==
  RestQuery(h, e, [s \in Statuses |-> TRUE], FALSE)

IsBadRequest(h, e) ==
  RestQuery(h, e, [s \in Statuses |-> s = StatusBadRequest], FALSE)

RestStatusCode(h, e) == RestQuery(h, e, [s \in Statuses |-> s], 0)

RestFormats == {<<97>>, <<37, 115>>}

\* Errors of the caller: nil, an error made by errors.New, a Timeout failure,
\* a nil *RestAPI, a &RestAPI{} literal with status 500 and the aggregates.
RestArgs(h) ==
  {Nil, E1, Category(h, "Timeout", StrFoo, <<>>), RestNil,
   RestAPI(StatusInternalServerError, StrFoo, NoFields, E1)} \cup Ptrs(h)

\* An aggregate whose first REST error is an InvalidFields error and whose
\* last failure is a BadRequest error.
InitRest ==
  /\ heap = <<Literal(<<E1, NewInvalidFields(OneField, StrFoo, <<>>),
                        NewBadRequest(StrFoo, <<>>)>>)>>
  /\ pc = "run"
  /\ last = [op |-> "Init", wraps |-> 0]
  /\ walk = NoWalk
  /\ grp = NoGroup
  /\ tasks = <<>>
  /\ mainpc = "idle"
  /\ catalog = NoCatalog

Made(op, res) ==
  /\ pc = "run"
  /\ last' = [op |-> op, res |-> res, wraps |-> 0]
  /\ pc' = "made"
  /\ UNCHANGED <<heap, walk, grp, tasks, mainpc, catalog>>

\* InvalidFields(f, msg, a...)
InvalidFieldsCall(f, msg, a) ==
  Made("InvalidFields", NewInvalidFields(f, msg, a))

\* BadRequest(msg, a...)
BadRequestCall(msg, a) == Made("BadRequest", NewBadRequest(msg, a))

\* ToBadRequest(e, msg, a...)
ToBadRequestCall(e, msg, a) == Made("ToBadRequest", ToBadRequest(e, msg, a))

\* Wrap(err, msg, a...) around the error made last.
WrapCall(msg, a) ==
  /\ pc = "made"
  /\ last.wraps < MaxWraps
  /\ last' = [op |-> "Wrap", res |-> Wrap(heap, last.res, msg, a),
              wraps |-> last.wraps + 1]
  /\ UNCHANGED <<heap, pc, walk, grp, tasks, mainpc, catalog>>

Asked(op, e, r) ==
  /\ last' = [op |-> op, arg |-> e, res |-> r.res, ok |-> r.ok,
              panic |-> r.panic, wraps |-> last.wraps]
  /\ pc' = "done"
  /\ UNCHANGED <<heap, walk, grp, tasks, mainpc, catalog>>

IsInvalidFieldsCall(e) == Asked("IsInvalidFields", e, IsInvalidFields(heap, e))

IsBadRequestCall(e) == Asked("IsBadRequest", e, IsBadRequest(heap, e))

RestStatusCodeCall(e) == Asked("RestStatusCode", e, RestStatusCode(heap, e))

RestOperands == IF pc = "made" THEN {last.res} ELSE RestArgs(heap)

NextRest ==
  /\ pc \in {"run", "made"}
  /\ \/ \E f \in {NoFields, OneField} : \E m \in RestFormats :
          \E a \in FormatArgs : InvalidFieldsCall(f, m, a)
     \/ \E m \in RestFormats : \E a \in FormatArgs : BadRequestCall(m, a)
     \/ \E e \in RestArgs(heap) \ {Nil, RestNil} : \E m \in RestFormats :
          \E a \in FormatArgs : ToBadRequestCall(e, m, a)
     \/ \E m \in RestFormats : \E a \in FormatArgs : WrapCall(m, a)
     \/ \E e \in RestOperands : IsInvalidFieldsCall(e)
     \/ \E e \in RestOperands : IsBadRequestCall(e)
     \/ \E e \in RestOperands : RestStatusCodeCall(e)

SpecRest == InitRest /\ [][NextRest]_vars

\* The first RestAPI error of the cause chain of e, if there is one.
FirstRest(h, e) == FirstOfType(h, e, "*failure.RestAPI")

CatalogKey == StrFoo
GroupNames == {<<97>>, <<98>>}
FieldKeys == {<<120>>, <<121>>}
FieldMsgs == {StrBar}
StrOpen == <<40>>

NewField(key, msg) == [Key |-> key, Msg |-> msg]

\* Field.Error
FieldError(f) == f.Key \o StrWrapSep \o f.Msg

NewFieldGroup(name) == [Name |-> name, Fields |-> <<>>]

\* FieldGroup.Error
FieldGroupError(g) ==
  IF Len(g.Fields) = 0 THEN <<>>
  ELSE g.Name \o StrOpen
       \o Join([i \in 1..Len(g.Fields) |-> FieldError(g.Fields[i])], StrComma)
       \o StrClose

NewCatalog(key, opts) ==
  [on |-> TRUE,
   Status |-> IF Len(opts) > 0 /\ opts[1] # 0 THEN opts[1]
              ELSE StatusUnprocessableEntity,
   Key |-> key, Groups |-> <<>>, objs |-> <<>>]

\* fc.Groups[name] = group
Put(c, name, r) ==
  [c EXCEPT !.Groups = [n \in DOMAIN c.Groups \cup {name} |->
                          IF n = name THEN r ELSE c.Groups[n]]]

\* The group a name of the catalog stands for.
GroupOf(c, n) == c.objs[c.Groups[n]]

RECURSIVE CountOver(_, _)
CountOver(c, names) ==
  IF names = {} THEN 0
  ELSE LET n == CHOOSE x \in names : TRUE
       IN Len(GroupOf(c, n).Fields) + CountOver(c, names \ {n})

\* Variant of Catalog.ErrorCount that counts the groups with fields.
CatalogErrorCount_Groups(c) ==
  Cardinality({n \in DOMAIN c.Groups : Len(GroupOf(c, n).Fields) > 0})

\* Catalog.ErrorCount
CatalogErrorCount(c) == CountOver(c, DOMAIN c.Groups)

\* Catalog.HasErrors
CatalogHasErrors(c) == \E n \in DOMAIN c.Groups : Len(GroupOf(c, n).Fields) > 0

\* The orders in which a range over the map may visit the groups.
Orders(c) ==
  {o \in [1..Cardinality(DOMAIN c.Groups) -> DOMAIN c.Groups] :
     \A i, j \in DOMAIN o : i # j => o[i] # o[j]}

\* Catalog.Error, the range over the map visiting the groups in order o.
CatalogError(c, o) ==
  IF CatalogErrorCount(c) = 0 THEN <<>>
  ELSE c.Key \o StrWrapSep
       \o Join([i \in 1..Len(o) |-> FieldGroupError(GroupOf(c, o[i]))], StrComma)

\* Catalog.Add
RECURSIVE CatalogAdd(_, _)
CatalogAdd(c, items) ==
  IF items = <<>> THEN c
  ELSE IF Head(items) = 0 THEN CatalogAdd(c, Tail(items))
  ELSE CatalogAdd(Put(c, c.objs[Head(items)].Name, Head(items)), Tail(items))

\* Catalog.AddNewGroup
CatalogAddNewGroup(c, name) ==
  Put([c EXCEPT !.objs = Append(@, NewFieldGroup(name))], name, Len(c.objs) + 1)

\* FieldGroup.Add on the group with reference r
FieldGroupAdd(c, r, items) == [c EXCEPT !.objs[r].Fields = @ \o items]

\* FieldGroup.AddField on the group with reference r
FieldGroupAddField(c, r, name, msg) ==
  [c EXCEPT !.objs[r].Fields = Append(@, NewField(name, msg))]

\* Catalog.AddField
CatalogAddField(c, g, name, msg) ==
  IF g \in DOMAIN c.Groups
  THEN FieldGroupAddField(c, c.Groups[g], name, msg)
  ELSE FieldGroupAddField(CatalogAddNewGroup(c, g), Len(c.objs) + 1, name, msg)

RECURSIVE FieldsIn(_)
FieldsIn(objs) ==
  IF objs = <<>> THEN 0 ELSE Len(Head(objs).Fields) + FieldsIn(Tail(objs))

AllFields == {NewField(k, m) : k \in FieldKeys, m \in FieldMsgs}

InitCatalog ==
  /\ heap = <<>>
  /\ pc = "run"
  /\ last = [op |-> "NewCatalog"]
  /\ walk = NoWalk
  /\ grp = NoGroup
  /\ tasks = <<>>
  /\ mainpc = "idle"
  /\ catalog = NewCatalog(CatalogKey, <<>>)

\* A call that changes the catalog or a group, within the bounds; the
\* record of the call tells AddField from the others.
Changed(op, c) ==
  /\ Len(c.objs) <= MaxGroupObjs
  /\ FieldsIn(c.objs) <= MaxFields
  /\ catalog' = c
  /\ last' = op
  /\ UNCHANGED <<heap, pc, walk, grp, tasks, mainpc>>

\* NewFieldGroup(name), the group not yet in the catalog
NewFieldGroupCall(name) ==
  Changed([op |-> "Change"],
          [catalog EXCEPT !.objs = Append(@, NewFieldGroup(name))])

CatalogAddCall(items) == Changed([op |-> "Change"], CatalogAdd(catalog, items))

AddNewGroupCall(name) ==
  Changed([op |-> "Change"], CatalogAddNewGroup(catalog, name))

AddFieldCall(g, name, msg) ==
  Changed([op |-> "AddField", grp |-> g], CatalogAddField(catalog, g, name, msg))

FieldGroupAddCall(r, items) ==
  Changed([op |-> "Change"], FieldGroupAdd(catalog, r, items))

FieldGroupAddFieldCall(r, name, msg) ==
  Changed([op |-> "Change"],
          FieldGroupAddField(catalog, r, name, msg))

\* A call that reads the catalog.
Read(op, res) ==
  /\ last' = [op |-> op, res |-> res]
  /\ pc' = "done"
  /\ UNCHANGED <<heap, walk, grp, tasks, mainpc, catalog>>

ErrorCountCall == Read("ErrorCount", CatalogErrorCount(catalog))

HasErrorsCall == Read("HasErrors", CatalogHasErrors(catalog))

\* Catalog.Error: the order of the range over the map is not specified.
CatalogErrorCall == \E o \in Orders(catalog) : Read("Error", CatalogError(catalog, o))

NextCatalog ==
  /\ pc = "run"
  /\ \/ \E n \in GroupNames : NewFieldGroupCall(n)
     \/ \E items \in SeqsUpTo(0..Len(catalog.objs), MaxArgs) : CatalogAddCall(items)
     \/ \E n \in GroupNames : AddNewGroupCall(n)
     \/ \E g \in GroupNames : \E k \in FieldKeys : \E m \in FieldMsgs :
          AddFieldCall(g, k, m)
     \/ \E r \in 1..Len(catalog.objs) :
          \E items \in SeqsUpTo(AllFields,
                                Min(MaxArgs, MaxFields - FieldsIn(catalog.objs))) :
            FieldGroupAddCall(r, items)
     \/ \E r \in 1..Len(catalog.objs) : \E k \in FieldKeys : \E m \in FieldMsgs :
          FieldGroupAddFieldCall(r, k, m)
     \/ ErrorCountCall
     \/ HasErrorsCall
     \/ CatalogErrorCall

SpecCatalog == InitCatalog /\ [][NextCatalog]_vars

\* The fields of the groups that are in the catalog, each with its place.
FieldsOfCatalog(c) ==
  {p \in (DOMAIN c.Groups) \X (1..MaxFields) :
     p[2] <= Len(GroupOf(c, p[1]).Fields)}

\* C25: after any sequence of catalog and group operations ErrorCount() is
\* the number of fields over all groups in the catalog, HasErrors() is true
\* exactly when ErrorCount() > 0 and Error() is empty exactly when
\* ErrorCount() = 0; AddField on a group name not yet present creates the
\* group and raises ErrorCount() by exactly one.
C25_Counts ==
  /\ [](/\ last.op = "ErrorCount"
             => last.res = Cardinality(FieldsOfCatalog(catalog))
        /\ last.op = "HasErrors"
             => (last.res <=> CatalogErrorCount(catalog) > 0)
        /\ last.op = "Error"
             => (last.res = <<>> <=> CatalogErrorCount(catalog) = 0))
  /\ [][(last'.op = "AddField" /\ last'.grp \notin DOMAIN catalog.Groups)
          => /\ last'.grp \in DOMAIN catalog'.Groups
             /\ CatalogErrorCount(catalog') = CatalogErrorCount(catalog) + 1]_vars

\* ErrorCount has answered 3 for a catalog with two groups.
C25_Witness ==
  /\ last.op = "ErrorCount"
  /\ last.res = 3
  /\ Cardinality(DOMAIN catalog.Groups) = 2

\* C26: Error() is a function of the catalog's contents: whatever order the
\* groups are visited in, the string is the same.
C26_Deterministic ==
  last.op = "Error" =>
    \A o \in Orders(catalog) : CatalogError(catalog, o) = last.res

\* -------------------------------------------------------- the frame of Append
\* The failures the aggregate err held before the step are the first
\* failures it holds after it.
KeepsPrefix(err) ==
  /\ Len(heap'[err.ref].Failures) >= Len(heap[err.ref].Failures)
  /\ SubSeq(heap'[err.ref].Failures, 1, Len(heap[err.ref].Failures))
       = heap[err.ref].Failures

\* What Append does with a first argument that is nil, a nil *Multi or an
\* error of another type: the result is a new aggregate with the default
\* formatter.
ReturnsNew(res) ==
  /\ IsMultiVal(res)
  /\ res.ref \notin Refs(heap)
  /\ heap'[res.ref].Formatter # "custom"

Holders == {i \in DOMAIN tasks : tasks[i].pc \in {"locked", "store", "unlock"}}

\* Wait is between its g.mutex.Lock() and its return, where it reads g.err.
WaitHolds == mainpc \in {"locked", "locked2"}

\* C27: g.err is read and written under the mutex only: at most one task is
\* executing the append-and-store, Wait reads g.err holding the same mutex and
\* so never while a task is between its Append and its store, and a task
\* whose result is nil never takes the mutex.
C27_Mutex ==
  /\ Cardinality(Holders) + (IF WaitHolds THEN 1 ELSE 0) <= 1
  /\ \A i \in Holders : grp.mutex = i
  /\ WaitHolds => grp.mutex = -1
  /\ WaitHolds => \A i \in DOMAIN tasks : tasks[i].pc # "store"
  /\ \A i \in DOMAIN tasks :
       tasks[i].res = Nil => tasks[i].pc \in {"add", "start", "defer", "done"}

\* A task is between its Append and its store while another one waits for
\* the mutex and Wait waits for the tasks.
C27_Witness ==
  /\ mainpc = "barrier"
  /\ \E i, j \in DOMAIN tasks :
       /\ tasks[i].pc = "store"
       /\ tasks[j].pc = "lock"
  /\ C27_Mutex

\* The steps of task i, and of Wait, that the scheduler takes when it can.
TaskStep(i) ==
  /\ i \in DOMAIN tasks
  /\ \/ GoSpawn(i)
     \/ TaskCall(i)
     \/ TaskLock(i)
     \/ TaskAppend(i)
     \/ TaskStore(i)
     \/ TaskUnlock(i)
     \/ TaskDone(i)

WaitStep == WaitBarrier \/ WaitLock \/ WaitReturn

\* The Group under a fair scheduler: every goroutine that can take a step
\* eventually takes one, and every task function returns.
SpecGroupFair ==
  InitGroup /\ [][NextGroupOnce]_vars
  /\ \A i \in 1..MaxTasks : WF_vars(TaskStep(i))
  /\ WF_vars(WaitStep)

\* C28: under fair scheduling, with every task returning, a call of Wait
\* returns; a task has released the mutex when it decrements the count.
C28_WaitReturns ==
  /\ (mainpc = "barrier") ~> (mainpc = "returned")
  /\ [](\A i \in DOMAIN tasks :
          tasks[i].pc \in {"defer", "done"} => grp.mutex # i)

\* Wait has returned after two tasks with failures have finished.
C28_Witness ==
  /\ mainpc = "returned"
  /\ Len(tasks) >= 2
  /\ \A i \in DOMAIN tasks : tasks[i].pc = "done" /\ tasks[i].res \in {E1, E2}
  /\ Len(Failures(heap, grp.ret)) = Len(tasks)

\* C30: once Wait has returned with every submitted task over and no Go
\* call since, another call of Wait does not block and returns the same
\* aggregate with the same failures, leaving the Group as it was.
C30_WaitAgain ==
  grp.quiet =>
    /\ mainpc = "barrier2" => grp.wg = 0
    /\ mainpc = "lock2" => grp.mutex = 0
    /\ mainpc \in {"returned", "barrier2", "lock2", "locked2", "returned2"}
         => grp.snap = <<heap, grp.err, grp.wg>>
    /\ mainpc = "returned2" => grp.again = grp.ret /\ grp.mutex = 0

\* The second call has returned the aggregate of two failures again.
C30_Witness ==
  /\ mainpc = "returned2"
  /\ grp.quiet
  /\ IsMultiVal(grp.again)
  /\ grp.again = grp.ret
  /\ Len(Failures(heap, grp.again)) = 2

====
